---- MODULE Spec2Model ----
(***************************************************************************)
(* Anomaly-detection core of the network agent: agent/detector.py          *)
(* (_build_feature_matrix, detect_outliers_iforest, detect_outliers_iqr),  *)
(* agent/actions.py (suggest_actions) and the rule pass of app.py (index); *)
(* the health-check merge of agent/loader.py and the UI tools of           *)
(* network_analytics.py.                                                   *)
(*                                                                         *)
(* A DeviceRecord is a Python dict: here a function whose DOMAIN is the    *)
(* set of keys present.  A scalar is [t, n, s]: t is the Python type, n    *)
(* the numeric payload in hundredths (40 is n = 4000, 0.55 is n = 55), s   *)
(* the text of a str.  Numbers are finite (no nan/inf).  An Optional       *)
(* float is <<>> (None) or <<n>>.                                          *)
(*                                                                         *)
(* Specifications: Spec (the detectors, the rule pass and suggest_actions  *)
(* on small batches), SpecFM (_build_feature_matrix), SpecIQR              *)
(* (detect_outliers_iqr on 4 and 5 records, any spread factor),            *)
(* SpecScenario (four values near 50 and one 95), SpecActions              *)
(* (suggest_actions on records with absent, None and text fields),         *)
(* SpecIndex (the index route of app.py), SpecRule (the rule pass on any   *)
(* records), SpecLearner (a learner that raises), SpecRuns (two            *)
(* interleaved detection runs), SpecAgain (repeated detection), SpecBoth   *)
(* (both detectors on one list), SpecHealth (agent/loader.py               *)
(* _merge_health) and SpecUi (start_ui and stop_ui of                      *)
(* network_analytics.py).                                                  *)
(***************************************************************************)
EXTENDS Integers, Sequences, FiniteSets, TLC

VARIABLES rows, haveLearner, op, fm, res, runs, hblocks, hout, hdone, pidFile, alive, signalled, calls

healthVars == <<hblocks, hout, hdone>>
uiVars == <<pidFile, alive, signalled, calls>>
vars == <<rows, haveLearner, op, fm, res, runs, healthVars, uiVars>>

\* ---------------------------------------------------------------- bounds
MaxN == 3

\* ---------------------------------------------------------------- scalars
None == [t |-> "none", n |-> 0, s |-> ""]
IntV(i) == [t |-> "int", n |-> 100 * i, s |-> ""]
FloatV(h) == [t |-> "float", n |-> h, s |-> ""]
BoolV(b) == [t |-> "bool", n |-> IF b THEN 100 ELSE 0, s |-> ""]
StrV(x) == [t |-> "str", n |-> 0, s |-> x]

\* float(text) of the texts used in the model; any other text raises ValueError
FloatOfText == ("40" :> 4000) @@ ("90.5" :> 9050)

\* dict.get(k): None when the key is absent
get(r, k) == IF k \in DOMAIN r THEN r[k] ELSE None

\* isinstance(x, (int, float)); bool is a subclass of int
IsNumber(x) == x.t \in {"int", "float", "bool"}

\* bool(x)
Truthy(x) ==
    CASE x.t = "none" -> FALSE
      [] x.t = "str" -> x.s # ""
      [] OTHER -> x.n # 0

Abs(a) == IF a < 0 THEN -a ELSE a
Max(a, b) == IF a >= b THEN a ELSE b
Min(a, b) == IF a <= b THEN a ELSE b

\* ---------------------------------------------------------------- helpers
_EXCLUDE_FOR_IQR ==
    {"host", "source", "raw", "os_type", "image", "model", "serial",
     "license_status", "version", "version_major", "version_minor", "version_patch"}

\* float(x) under try/except: numbers and numeric texts, else None
_num(x) ==
    IF IsNumber(x) THEN <<x.n>>
    ELSE IF x.t = "str" /\ x.s \in DOMAIN FloatOfText THEN <<FloatOfText[x.s]>>
    ELSE <<>>

_bool01(x) ==
    IF x.t = "none" THEN <<>>
    ELSE IF Truthy(x) THEN <<100>> ELSE <<0>>

\* list.sort() / sorted() on numbers
RECURSIVE InsertSorted(_, _)
InsertSorted(v, s) ==
    IF s = <<>> THEN <<v>>
    ELSE IF v <= Head(s) THEN <<v>> \o s
    ELSE <<Head(s)>> \o InsertSorted(v, Tail(s))

RECURSIVE sorted(_)
sorted(s) == IF s = <<>> THEN <<>> ELSE InsertSorted(Head(s), sorted(Tail(s)))

\* math.isclose(a, b): abs(a-b) <= 1e-09 * max(abs(a), abs(b)), abs_tol = 0
isclose(a, b) == Abs(a - b) <= Max(Abs(a), Abs(b)) \div 1000000000

\* ---------------------------------------------------------------- feature matrix
\* mutant: the attached score is listed as a feature
candidates_with_score ==
    << "mem_used_pct", "license_expired", "iface_total", "iface_enabled",
       "iface_enabled_ratio", "bgp_peers", "v4nets", "v6nets", "uptime_days",
       "hc_cpu_1min", "hc_cpu_5min", "hc_cpu_threshold", "hc_mem_util",
       "hc_mem_threshold", "hc_env_temp", "hc_env_temp_threshold",
       "hc_uptime_min", "hc_uptime_min_threshold", "_iforest_score" >>

candidates ==
    << "mem_used_pct", "license_expired", "iface_total", "iface_enabled",
       "iface_enabled_ratio", "bgp_peers", "v4nets", "v6nets", "uptime_days",
       "hc_cpu_1min", "hc_cpu_5min", "hc_cpu_threshold", "hc_mem_util",
       "hc_mem_threshold", "hc_env_temp", "hc_env_temp_threshold",
       "hc_uptime_min", "hc_uptime_min_threshold" >>

\* Floats inside _build_feature_matrix are held in units of 1/200 (twice the
\* hundredths of a scalar) so that 0.5 * (a + b) is exact.
Twice(o) == IF o = <<>> THEN <<>> ELSE <<2 * o[1]>>

\* v = _bool01(r.get(k)) if k == "license_expired" else _num(r.get(k))
fm_coerce(r, k) ==
    IF k = "license_expired" THEN Twice(_bool01(get(r, k))) ELSE Twice(_num(get(r, k)))

\* Raw (with None): one vector per row, one entry per candidate
fm_raw(rs) ==
    [i \in 1..Len(rs) |-> [j \in 1..Len(candidates) |-> fm_coerce(rs[i], candidates[j])]]

\* vals = [v for v in col if isinstance(v, (int, float))]; vals.sort()
fm_vals(rs, j) ==
    LET col == [i \in 1..Len(rs) |-> fm_coerce(rs[i], candidates[j])]
        present == SelectSeq(col, LAMBDA o : o # <<>>)
    IN  sorted([p \in 1..Len(present) |-> present[p][1]])

\* mutant: an even count takes the upper middle value
fm_median_upper(rs, j) ==
    LET vals == fm_vals(rs, j)
        L == Len(vals)
        mid == L \div 2
    IN  IF L = 0 THEN <<>> ELSE <<vals[mid + 1]>>

fm_median(rs, j) ==
    LET vals == fm_vals(rs, j)
        L == Len(vals)
        mid == L \div 2
    IN  IF L = 0 THEN <<>>
        ELSE IF L % 2 = 1 THEN <<vals[mid + 1]>>
        ELSE <<(vals[mid] + vals[mid + 1]) \div 2>>

\* mutant: the zero-variance test is missing
fm_keep_any_present(rs, j) == fm_vals(rs, j) # <<>>

fm_keep(rs, j) ==
    LET vals == fm_vals(rs, j)
    IN  IF vals = <<>> THEN FALSE
        ELSE ~ isclose(vals[1], vals[Len(vals)])

\* mutant: the name list ignores the keep mask
_build_feature_matrix_all_names(rs) ==
    IF rs = <<>> THEN [X |-> <<>>, names |-> <<>>]
    ELSE
      LET raw == fm_raw(rs)
          m == Len(candidates)
          medians == [j \in 1..m |-> fm_median(rs, j)]
          keep_mask == [j \in 1..m |-> fm_keep(rs, j)]
          kept == SelectSeq([j \in 1..m |-> j], LAMBDA j : keep_mask[j])
          cell(i, j) ==
              IF raw[i][j] # <<>> THEN raw[i][j][1]
              ELSE IF medians[j] # <<>> THEN medians[j][1]
              ELSE 0
      IN  [X |-> [i \in 1..Len(rs) |-> [p \in 1..Len(kept) |-> cell(i, kept[p])]],
           names |-> candidates]

_build_feature_matrix(rs) ==
    IF rs = <<>> THEN [X |-> <<>>, names |-> <<>>]
    ELSE
      LET raw == fm_raw(rs)
          m == Len(candidates)
          medians == [j \in 1..m |-> fm_median(rs, j)]
          keep_mask == [j \in 1..m |-> fm_keep(rs, j)]
          kept == SelectSeq([j \in 1..m |-> j], LAMBDA j : keep_mask[j])
          cell(i, j) ==
              IF raw[i][j] # <<>> THEN raw[i][j][1]
              ELSE IF medians[j] # <<>> THEN medians[j][1]
              ELSE 0
      IN  [X |-> [i \in 1..Len(rs) |-> [p \in 1..Len(kept) |-> cell(i, kept[p])]],
           names |-> [p \in 1..Len(kept) |-> candidates[kept[p]]]]

\* ---------------------------------------------------------------- IsolationForest detector
\* The learner (sklearn IsolationForest) is an external capability: fit,
\* predict (-1 anomaly, 1 normal) and score_samples (higher = less anomalous)
\* are any decisions and scores over the rows of X.  Scores are in hundredths.
ScoreVals == {-60, -45}
Preds(n) == [1..n -> {-1, 1}]
Scores(n) == [1..n -> ScoreVals]

\* contamination arguments, in hundredths (0.0, 0.20 as in app.py, 0.90)
ContamVals == {0, 20, 90}

\* mutant: the upper clamp is missing
clamp_low_only(c) == Max(1, c)

\* contamination = float(max(0.01, min(0.5, contamination)))
clamp_contamination(c) == Max(1, Min(50, c))

\* Python round() of the quotient num / den: ties go to the even integer
round(num, den) ==
    LET q == num \div den
        r == num % den
    IN  IF 2 * r < den THEN q
        ELSE IF 2 * r > den THEN q + 1
        ELSE IF q % 2 = 0 THEN q ELSE q + 1

\* mutant: the floor of one is missing
top_k_no_floor(n, contamination) == round(n * contamination, 100)

\* top_k = max(1, int(round(n * contamination)))
top_k(n, contamination) == Max(1, round(n * contamination, 100))

\* sorted(range(n), key=lambda i: scores[i]): stable
RECURSIVE InsertByKey(_, _, _)
InsertByKey(i, s, key) ==
    IF s = <<>> THEN <<i>>
    ELSE IF key[i] <= key[Head(s)] THEN <<i>> \o s
    ELSE <<Head(s)>> \o InsertByKey(i, Tail(s), key)

RECURSIVE sorted_by(_, _)
sorted_by(s, key) ==
    IF s = <<>> THEN <<>> ELSE InsertByKey(Head(s), sorted_by(Tail(s), key), key)

\* mutant: the fallback ranks the highest scores first
iforest_idxs_highest(n, k, pred, scores) ==
    LET flagged == SelectSeq([i \in 1..n |-> i], LAMBDA i : pred[i] = -1)
        ranked == sorted_by([i \in 1..n |-> i], [i \in 1..n |-> -scores[i]])
    IN  IF flagged # <<>> THEN flagged
        ELSE SubSeq(ranked, 1, Min(k, n))

\* mutant: fewer than k flagged rows are replaced by the k lowest scores
iforest_idxs_pad(n, k, pred, scores) ==
    LET flagged == SelectSeq([i \in 1..n |-> i], LAMBDA i : pred[i] = -1)
        ranked == sorted_by([i \in 1..n |-> i], scores)
    IN  IF Len(flagged) >= k THEN flagged
        ELSE SubSeq(ranked, 1, Min(k, n))

\* idxs = [i for i, p in enumerate(pred) if p == -1], else the top_k lowest scores
iforest_idxs(n, k, pred, scores) ==
    LET flagged == SelectSeq([i \in 1..n |-> i], LAMBDA i : pred[i] = -1)
        ranked == sorted_by([i \in 1..n |-> i], scores)
    IN  IF flagged # <<>> THEN flagged
        ELSE SubSeq(ranked, 1, Min(k, n))

\* mutant: the score is attached to every row
attach_scores_all(rs, idxs, scores) ==
    [i \in 1..Len(rs) |-> ("_iforest_score" :> FloatV(scores[i])) @@ rs[i]]

\* rows[i]["_iforest_score"] = float(scores[i]) for i in idxs
attach_scores(rs, idxs, scores) ==
    [i \in 1..Len(rs) |->
        IF \E p \in 1..Len(idxs) : idxs[p] = i
        THEN ("_iforest_score" :> FloatV(scores[i])) @@ rs[i]
        ELSE rs[i]]

\* mutant: the learner's availability is not tested
iforest_unavailable_rows_only(rs, have) == rs = <<>>

\* if IsolationForest is None or not rows
iforest_unavailable(rs, have) == ~ have \/ rs = <<>>

\* if not feats or not X or not X[0]
iforest_degenerate(X, feats) == feats = <<>> \/ X = <<>> \/ X[1] = <<>>

\* The value detect_outliers_iforest returns and what it did on the way, given
\* built = _build_feature_matrix(rows): anomalies are the records
\* rows[idxs[p]]; fitted records that the learner was constructed and fitted.
iforest_result(rs, built, have, c, pred, scores) ==
    LET X == built.X
        feats == built.names
        n == Len(rs)
        contamination == clamp_contamination(c)
        k == top_k(n, contamination)
        idxs == iforest_idxs(n, k, pred, scores)
    IN  IF iforest_unavailable(rs, have)
        THEN [op |-> "iforest", exit |-> "early", idxs |-> <<>>, feats |-> <<>>,
              scores |-> <<>>, fitted |-> FALSE]
        ELSE IF iforest_degenerate(X, feats)
        THEN [op |-> "iforest", exit |-> "early", idxs |-> <<>>, feats |-> feats,
              scores |-> <<>>, fitted |-> FALSE]
        ELSE [op |-> "iforest", exit |-> "normal", idxs |-> idxs, feats |-> feats,
              scores |-> [p \in 1..Len(idxs) |-> scores[idxs[p]]], fitted |-> TRUE,
              arg |-> c, contamination |-> contamination, top_k |-> k, X |-> X,
              pred |-> pred, score_samples |-> scores]

detect_outliers_iforest(rs, have, c, pred, scores) ==
    iforest_result(rs, _build_feature_matrix(rs), have, c, pred, scores)

\* ---------------------------------------------------------------- IQR detector
\* Every record key of the loader and the detectors, in sorted() order
\* (code-point order: "_" sorts before the lower-case letters).
FieldOrder ==
    << "_iforest_score", "bgp_hold", "bgp_keepalive", "bgp_peers", "hc_cpu_1min",
       "hc_cpu_5min", "hc_cpu_threshold", "hc_env_over", "hc_env_temp",
       "hc_env_temp_threshold", "hc_fail_count", "hc_fans_status", "hc_mem_buffers",
       "hc_mem_buffers_mb", "hc_mem_cache", "hc_mem_cache_mb", "hc_mem_free",
       "hc_mem_free_mb", "hc_mem_threshold", "hc_mem_util", "hc_power_ok", "hc_result",
       "hc_uptime_min", "hc_uptime_min_threshold", "host", "iface_enabled",
       "iface_enabled_ratio", "iface_total", "image", "license_expired",
       "license_status", "mem_used_pct", "model", "os_type", "raw", "serial", "source",
       "uptime_days", "uptime_hours", "v4nets", "v6nets", "version", "version_major",
       "version_minor", "version_patch" >>

\* nums = [v for v in vals if isinstance(v, (int, float))], as payloads
iqr_nums(rs, k) ==
    LET present == SelectSeq([i \in 1..Len(rs) |-> get(rs[i], k)], IsNumber)
    IN  [p \in 1..Len(present) |-> present[p].n]

\* mutant: the excluded fields are not removed from the keys
_candidate_numeric_cols_no_exclude(rs) ==
    IF rs = <<>> THEN <<>>
    ELSE
      LET keys == UNION {DOMAIN rs[i] : i \in 1..Len(rs)}
          usable(k) ==
              LET nums == iqr_nums(rs, k)
              IN  /\ k \in keys
                  /\ ~ (Len(nums) < 4)
                  /\ ~ (Cardinality({nums[p] : p \in 1..Len(nums)}) < 3)
      IN  SelectSeq(FieldOrder, usable)

\* keys minus _EXCLUDE_FOR_IQR, in sorted() order, with at least 4 numbers
\* and at least 3 distinct ones
_candidate_numeric_cols(rs) ==
    IF rs = <<>> THEN <<>>
    ELSE
      LET keys == UNION {DOMAIN rs[i] : i \in 1..Len(rs)} \ _EXCLUDE_FOR_IQR
          usable(k) ==
              LET nums == iqr_nums(rs, k)
              IN  /\ k \in keys
                  /\ ~ (Len(nums) < 4)
                  /\ ~ (Cardinality({nums[p] : p \in 1..Len(nums)}) < 3)
      IN  SelectSeq(FieldOrder, usable)

\* pct(p) for p = quarters / 4, in quarter-hundredths: idx = (n - 1) * p,
\* nums[lo] * (1 - w) + nums[hi] * w (exact arithmetic)
iqr_pct(nums, quarters) ==
    LET idx4 == (Len(nums) - 1) * quarters
        lo == idx4 \div 4
        w4 == idx4 % 4
        hi == IF w4 = 0 THEN lo ELSE lo + 1
    IN  nums[lo + 1] * (4 - w4) + nums[hi + 1] * w4

\* A bound of the IQR test: m in 1/4000 (tenths of a quarter-hundredth) plus
\* e times the 1e-9 of iqr = max(q3 - q1, 1e-9), in tenths.  The 1e-9 is
\* smaller than any difference of two payloads: bounds compare by m, then e.
EpsLeq(a, b) == a.m < b.m \/ (a.m = b.m /\ a.e <= b.e)

\* mutant: the percentiles are taken from the values in record order
iqr_bounds_unsorted(values, k10) ==
    LET nums == LET present == SelectSeq(values, IsNumber)
                IN  [p \in 1..Len(present) |-> present[p].n]
        q1 == iqr_pct(nums, 1)
        q3 == iqr_pct(nums, 3)
        d == q3 - q1
    IN  [q1 |-> q1, q3 |-> q3,
         lo |-> IF d > 0 THEN [m |-> 10 * q1 - k10 * d, e |-> 0]
                ELSE [m |-> 10 * q1, e |-> -k10],
         hi |-> IF d > 0 THEN [m |-> 10 * q3 + k10 * d, e |-> 0]
                ELSE [m |-> 10 * q3, e |-> k10]]

\* mutant: the spread factor is not applied, the bounds are the quartiles
iqr_bounds_no_spread(values, k10) ==
    LET nums == sorted(LET present == SelectSeq(values, IsNumber)
                       IN  [p \in 1..Len(present) |-> present[p].n])
        q1 == iqr_pct(nums, 1)
        q3 == iqr_pct(nums, 3)
    IN  [q1 |-> q1, q3 |-> q3,
         lo |-> [m |-> 10 * q1, e |-> 0],
         hi |-> [m |-> 10 * q3, e |-> 0]]

\* q1, q3 = pct(0.25), pct(0.75); iqr = max(q3 - q1, 1e-9);
\* lo, hi = q1 - k * iqr, q3 + k * iqr, with k10 = k in tenths
iqr_bounds(values, k10) ==
    LET nums == sorted(LET present == SelectSeq(values, IsNumber)
                       IN  [p \in 1..Len(present) |-> present[p].n])
        q1 == iqr_pct(nums, 1)
        q3 == iqr_pct(nums, 3)
        d == q3 - q1
    IN  [q1 |-> q1, q3 |-> q3,
         lo |-> IF d > 0 THEN [m |-> 10 * q1 - k10 * d, e |-> 0]
                ELSE [m |-> 10 * q1, e |-> -k10],
         hi |-> IF d > 0 THEN [m |-> 10 * q3 + k10 * d, e |-> 0]
                ELSE [m |-> 10 * q3, e |-> k10]]

\* not (lo <= v <= hi) for the numbers of a column with at least 4 of them
_iqr_flags(values, k10) ==
    LET n == Len(SelectSeq(values, IsNumber))
        b == iqr_bounds(values, k10)
        outside(v) ==
            LET x == [m |-> 40 * v.n, e |-> 0]
            IN  ~ (EpsLeq(b.lo, x) /\ EpsLeq(x, b.hi))
    IN  IF n < 4 THEN [i \in 1..Len(values) |-> FALSE]
        ELSE [i \in 1..Len(values) |->
                 IF ~ IsNumber(values[i]) THEN FALSE ELSE outside(values[i])]

\* k = 1.5 (app.py /scan), in tenths
KVals == {15}

\* spread factors of the k: float parameter, in tenths: 1.5, 0 and -1.0
KValsIQR == {15, 0, -10}

\* mutant: a record is returned only when every column flags it
detect_outliers_iqr_every_column(rs, k10) ==
    LET cols == _candidate_numeric_cols(rs)
        flags == [c \in 1..Len(cols) |->
                     _iqr_flags([i \in 1..Len(rs) |-> get(rs[i], cols[c])], k10)]
        flags_all == [i \in 1..Len(rs) |-> \A c \in 1..Len(cols) : flags[c][i]]
    IN  IF rs = <<>> \/ cols = <<>>
        THEN [op |-> "iqr", idxs |-> <<>>, feats |-> cols, scores |-> <<>>]
        ELSE [op |-> "iqr",
              idxs |-> SelectSeq([i \in 1..Len(rs) |-> i], LAMBDA i : flags_all[i]),
              feats |-> cols, scores |-> <<>>]

\* anomalies are the records rows[idxs[p]]: flagged by any column, in order
detect_outliers_iqr(rs, k10) ==
    LET cols == _candidate_numeric_cols(rs)
        flags == [c \in 1..Len(cols) |->
                     _iqr_flags([i \in 1..Len(rs) |-> get(rs[i], cols[c])], k10)]
        flags_any == [i \in 1..Len(rs) |-> \E c \in 1..Len(cols) : flags[c][i]]
    IN  IF rs = <<>> \/ cols = <<>>
        THEN [op |-> "iqr", idxs |-> <<>>, feats |-> cols, scores |-> <<>>]
        ELSE [op |-> "iqr",
              idxs |-> SelectSeq([i \in 1..Len(rs) |-> i], LAMBDA i : flags_any[i]),
              feats |-> cols, scores |-> <<>>]

\* ---------------------------------------------------------------- rule pass (app.py index)
\* lic_bad / many_disabled / mem_high of one record; an ordering comparison
\* of None or a str with a number raises TypeError.
rule_total(r) == IF "iface_total" \in DOMAIN r THEN r["iface_total"] ELSE IntV(0)
rule_ratio(r) == IF "iface_enabled_ratio" \in DOMAIN r THEN r["iface_enabled_ratio"] ELSE FloatV(100)

rule_raises(r) ==
    \/ ~ IsNumber(rule_total(r))
    \/ rule_total(r).n > 0 /\ ~ IsNumber(rule_ratio(r))
    \/ get(r, "mem_used_pct") # None /\ ~ IsNumber(get(r, "mem_used_pct"))

\* mutant: the rule pass uses the 0.5 of suggest_actions for the ratio
rule_flag_half(r) ==
    LET lic_bad == IsNumber(get(r, "license_expired")) /\ get(r, "license_expired").n = 100
        many_disabled == rule_total(r).n > 0 /\ rule_ratio(r).n < 50
        mem_high == get(r, "mem_used_pct") # None /\ get(r, "mem_used_pct").n >= 8500
    IN  lic_bad \/ many_disabled \/ mem_high

rule_flag(r) ==
    LET lic_bad == IsNumber(get(r, "license_expired")) /\ get(r, "license_expired").n = 100
        many_disabled == rule_total(r).n > 0 /\ rule_ratio(r).n < 60
        mem_high == get(r, "mem_used_pct") # None /\ get(r, "mem_used_pct").n >= 8500
    IN  lic_bad \/ many_disabled \/ mem_high

rule_flags(rs) ==
    IF \E i \in 1..Len(rs) : rule_raises(rs[i])
    THEN [op |-> "rule_flags", raised |-> TRUE, idxs |-> <<>>]
    ELSE [op |-> "rule_flags", raised |-> FALSE,
          idxs |-> SelectSeq([i \in 1..Len(rs) |-> i], LAMBDA i : rule_flag(rs[i]))]

\* ---------------------------------------------------------------- actions.py
\* str.lower() / str.upper() of the texts of the model
LowerOf == ("OK" :> "ok") @@ ("FAIL" :> "fail") @@ ("Fail" :> "fail") @@ ("PASS" :> "pass")
           @@ ("EXPIRED" :> "expired") @@ ("UNKNOWN" :> "unknown")
UpperOf == ("ok" :> "OK") @@ ("fail" :> "FAIL") @@ ("Fail" :> "FAIL") @@ ("pass" :> "PASS")
           @@ ("expired" :> "EXPIRED") @@ ("unknown" :> "UNKNOWN")
lower(t) == IF t \in DOMAIN LowerOf THEN LowerOf[t] ELSE t
upper(t) == IF t \in DOMAIN UpperOf THEN UpperOf[t] ELSE t

\* actions._num: float(x) if isinstance(x, (int, float)) else None
actions_num(x) == IF IsNumber(x) THEN <<x.n>> ELSE <<>>

\* actions._str: str(x) if x is not None else ""; the text of a number is
\* a numeral, written "<repr>": it is none of the words the rules compare with
_str(x) ==
    CASE x.t = "none" -> ""
      [] x.t = "str" -> x.s
      [] OTHER -> "<repr>"

\* int(x) of a float in hundredths: truncation toward zero, in units
int(h) == IF h >= 0 THEN h \div 100 ELSE -((-h) \div 100)

\* one suggestion: the message and the values formatted into it (hundredths)
Msg(id, a, b, t) == [id |-> id, a |-> a, b |-> b, t |-> t]
Baseline == Msg("baseline", 0, 0, "")

\* mutant: isinstance(x, int) is replaced by x is not None
IsInt_not_none(x) == x.t # "none"

\* isinstance(x, int)
IsInt(x) == x.t \in {"int", "bool"}

\* mutant: the interface rule reports the enabled count as the disabled one
sug_iface_enabled_count(r) ==
    LET iface_total == get(r, "iface_total")
        iface_enabled == get(r, "iface_enabled")
        iface_ratio == get(r, "iface_enabled_ratio")
    IN  IF /\ IsInt(iface_total) /\ IsInt(iface_enabled) /\ IsNumber(iface_ratio)
           /\ iface_total.n > 0 /\ iface_ratio.n < 50
        THEN <<Msg("iface", iface_enabled.n, iface_total.n, "")>>
        ELSE <<>>

\* Interface enablement ratio: "{disabled}/{iface_total} interfaces disabled"
sug_iface(r) ==
    LET iface_total == get(r, "iface_total")
        iface_enabled == get(r, "iface_enabled")
        iface_ratio == get(r, "iface_enabled_ratio")
    IN  IF /\ IsInt(iface_total) /\ IsInt(iface_enabled) /\ IsNumber(iface_ratio)
           /\ iface_total.n > 0 /\ iface_ratio.n < 50
        THEN <<Msg("iface", iface_total.n - iface_enabled.n, iface_total.n, "")>>
        ELSE <<>>

\* mutant: the timer rule fires also when hold equals 3 * keepalive
sug_bgp_hold_at_most(r) ==
    LET bgp_peers == get(r, "bgp_peers")
        ka == actions_num(get(r, "bgp_keepalive"))
        hold == actions_num(get(r, "bgp_hold"))
        s4 == IF bgp_peers # None /\ IsInt(bgp_peers) /\ bgp_peers.n = 0
              THEN <<Msg("bgp_down", 0, 0, "")>> ELSE <<>>
        s5 == IF bgp_peers # None /\ ka # <<>> /\ hold # <<>> /\ hold[1] <= 3 * ka[1]
              THEN <<Msg("bgp_timers", hold[1], ka[1], "")>> ELSE <<>>
    IN  s4 \o s5

\* BGP presence & timers sanity (only if BGP exists)
sug_bgp(r) ==
    LET bgp_peers == get(r, "bgp_peers")
        ka == actions_num(get(r, "bgp_keepalive"))
        hold == actions_num(get(r, "bgp_hold"))
        s4 == IF bgp_peers # None /\ IsInt(bgp_peers) /\ bgp_peers.n = 0
              THEN <<Msg("bgp_down", 0, 0, "")>> ELSE <<>>
        s5 == IF bgp_peers # None /\ ka # <<>> /\ hold # <<>> /\ hold[1] < 3 * ka[1]
              THEN <<Msg("bgp_timers", hold[1], ka[1], "")>> ELSE <<>>
    IN  s4 \o s5

\* mutant: the generic hint does not look at the hints before it
sug_hc_result_always(r, sug) ==
    LET hc_result == upper(_str(get(r, "hc_result")))
    IN  IF hc_result = "FAIL" THEN <<Msg("hc_fail", 0, 0, "")>> ELSE <<>>

\* Roll-up result: if FAIL and nothing specific caught it, add a generic
sug_hc_result(r, sug) ==
    LET hc_result == upper(_str(get(r, "hc_result")))
    IN  IF hc_result = "FAIL" /\ sug = <<>> THEN <<Msg("hc_fail", 0, 0, "")>> ELSE <<>>

\* sug of one record, in rule order, before the baseline default
suggestions_fired(r) ==
    LET lic_status == get(r, "license_status")
        lic_expired == get(r, "license_expired")
        s1 == IF lic_status # None /\ IsNumber(lic_expired) /\ lic_expired.n = 100
              THEN <<Msg("license", 0, 0, "")>> ELSE <<>>
        mem == actions_num(get(r, "mem_used_pct"))
        s2 == IF mem # <<>> /\ mem[1] >= 8500 THEN <<Msg("memory", 0, 0, "")>> ELSE <<>>
        s3 == sug_iface(r)
        s45 == sug_bgp(r)
        uptime_days == get(r, "uptime_days")
        s6 == IF IsInt(uptime_days) /\ uptime_days.n < 100
              THEN <<Msg("reboot", 0, 0, "")>> ELSE <<>>
        cpu_1m == actions_num(get(r, "hc_cpu_1min"))
        cpu_thr == actions_num(get(r, "hc_cpu_threshold"))
        s7 == IF cpu_1m # <<>> /\ cpu_thr # <<>>
              THEN IF cpu_1m[1] >= cpu_thr[1]
                   THEN <<Msg("cpu_over", cpu_1m[1], cpu_thr[1], "")>>
                   ELSE IF 10 * cpu_1m[1] >= 9 * cpu_thr[1]
                   THEN <<Msg("cpu_near", cpu_1m[1], cpu_thr[1], "")>>
                   ELSE <<>>
              ELSE <<>>
        hc_mem_util == actions_num(get(r, "hc_mem_util"))
        hc_mem_thr == actions_num(get(r, "hc_mem_threshold"))
        s8 == IF hc_mem_util # <<>> /\ hc_mem_thr # <<>> /\ hc_mem_util[1] >= hc_mem_thr[1]
              THEN <<Msg("hc_mem", hc_mem_util[1], hc_mem_thr[1], "")>> ELSE <<>>
        up_min == actions_num(get(r, "hc_uptime_min"))
        up_min_thr == actions_num(get(r, "hc_uptime_min_threshold"))
        s9 == IF up_min # <<>> /\ up_min_thr # <<>> /\ up_min[1] < up_min_thr[1]
              THEN <<Msg("uptime_slo", 100 * int(up_min[1]), 100 * int(up_min_thr[1]), "")>>
              ELSE <<>>
        env_over == actions_num(get(r, "hc_env_over"))
        env_cur == actions_num(get(r, "hc_env_temp"))
        env_thr == actions_num(get(r, "hc_env_temp_threshold"))
        s10 == IF env_over # <<>> /\ env_over[1] > 0
               THEN IF env_cur # <<>> /\ env_thr # <<>>
                    THEN <<Msg("env_temp", env_cur[1], env_thr[1], "")>>
                    ELSE <<Msg("env_temp_plain", 0, 0, "")>>
               ELSE <<>>
        power_ok == actions_num(get(r, "hc_power_ok"))
        s11 == IF power_ok # <<>> /\ power_ok[1] = 0
               THEN <<Msg("power", 0, 0, "")>> ELSE <<>>
        fans_status == lower(_str(get(r, "hc_fans_status")))
        s12 == IF fans_status # "" /\ fans_status \notin {"ok", "pass", "supported", "notsupported"}
               THEN <<Msg("fans", 0, 0, fans_status)>> ELSE <<>>
        sug == s1 \o s2 \o s3 \o s45 \o s6 \o s7 \o s8 \o s9 \o s10 \o s11 \o s12
    IN  sug \o sug_hc_result(r, sug)

\* mutant: the baseline default is missing
suggestions_no_default(r) == suggestions_fired(r)

\* actions[host] = sug or [baseline]
suggestions(r) ==
    IF suggestions_fired(r) # <<>> THEN suggestions_fired(r) ELSE <<Baseline>>

\* An ordering comparison (<, >, >=) raises TypeError when an operand is
\* None or a str.  The rules that compare what _num returned compare
\* floats; the interface and the uptime rule compare the raw values once
\* their isinstance tests have passed.
suggest_raises(r) ==
    LET iface_total == get(r, "iface_total")
        iface_enabled == get(r, "iface_enabled")
        iface_ratio == get(r, "iface_enabled_ratio")
        uptime_days == get(r, "uptime_days")
    IN  \/ /\ IsInt(iface_total) /\ IsInt(iface_enabled) /\ IsNumber(iface_ratio)
           /\ \/ ~ IsNumber(iface_total)
              \/ iface_total.n > 0 /\ ~ IsNumber(iface_ratio)
              \/ iface_total.n > 0 /\ iface_ratio.n < 50 /\ ~ IsNumber(iface_enabled)
        \/ IsInt(uptime_days) /\ ~ IsNumber(uptime_days)

\* host = r.get("host", "unknown")
host_of(r) == IF "host" \in DOMAIN r THEN r["host"] ELSE StrV("unknown")

\* mutant: the first record of a host keeps its entry
RECURSIVE suggest_actions_first_wins(_)
suggest_actions_first_wins(rs) ==
    IF rs = <<>> THEN <<>>
    ELSE LET n == Len(rs)
             before == suggest_actions_first_wins(SubSeq(rs, 1, n - 1))
         IN  before @@ (host_of(rs[n]) :> suggestions(rs[n]))

\* actions[host] = sug, record after record: a later record replaces an
\* earlier one of the same host
RECURSIVE suggest_actions(_)
suggest_actions(rs) ==
    IF rs = <<>> THEN <<>>
    ELSE LET n == Len(rs)
             before == suggest_actions(SubSeq(rs, 1, n - 1))
         IN  (host_of(rs[n]) :> suggestions(rs[n])) @@ before

\* ---------------------------------------------------------------- results
NoResult == [op |-> "none"]

\* no health-check file is being merged
NoHealth == hblocks = <<>> /\ hout = <<>> /\ hdone = 0

\* ui.pid: exists, and the pid written in it (0: nothing readable)
NoPidFile == [exists |-> FALSE, pid |-> 0]

\* no UI was started and no tool call is under way
NoUi == pidFile = NoPidFile /\ alive = {} /\ signalled = {} /\ calls = <<>>

\* ---------------------------------------------------------------- batches
\* Records of the feature-matrix specification: the two leading candidate
\* fields, absent, None, int, float, bool, numeric text and other text.
RecordsFM ==
    { [host |-> StrV("r1")],
      [host |-> StrV("r2"), mem_used_pct |-> None],
      [host |-> StrV("r3"), mem_used_pct |-> IntV(40)],
      [host |-> StrV("r4"), mem_used_pct |-> FloatV(9050)],
      [host |-> StrV("r5"), mem_used_pct |-> StrV("n/a")],
      [host |-> StrV("r6"), mem_used_pct |-> StrV("40"), license_expired |-> IntV(1)],
      [host |-> StrV("r7"), mem_used_pct |-> IntV(40), license_expired |-> IntV(0)],
      [host |-> StrV("r8"), mem_used_pct |-> FloatV(9050), license_expired |-> BoolV(TRUE)],
      [host |-> StrV("r9"), license_expired |-> IntV(0)],
      [host |-> StrV("r10"), license_expired |-> StrV("n/a")] }

BatchesOf(R) == UNION {[1..n -> R] : n \in 0..MaxN}

\* Records of the IQR specification: mem_used_pct and uptime_days as
\* numbers, None and text, the flag license_expired, and the excluded
\* version_major.
RecordsIQR ==
    { [host |-> StrV("q1"), mem_used_pct |-> IntV(50), uptime_days |-> IntV(3),
       license_expired |-> BoolV(FALSE), version_major |-> IntV(15)],
      [host |-> StrV("q2"), mem_used_pct |-> IntV(51), uptime_days |-> IntV(4),
       license_expired |-> BoolV(TRUE), version_major |-> IntV(16)],
      [host |-> StrV("q3"), mem_used_pct |-> FloatV(4950), uptime_days |-> IntV(400),
       version_major |-> IntV(17)],
      [host |-> StrV("q4"), mem_used_pct |-> IntV(95), uptime_days |-> IntV(5),
       license_expired |-> IntV(0)],
      [host |-> StrV("q5"), mem_used_pct |-> None],
      [host |-> StrV("q6"), mem_used_pct |-> StrV("n/a"), uptime_days |-> IntV(3),
       license_expired |-> BoolV(TRUE), version_major |-> IntV(17)] }

\* Records whose only number is mem_used_pct: near 50 (49, 50, 50.5, 51),
\* and 95
RecordsNear50 ==
    { [host |-> StrV("n1"), mem_used_pct |-> IntV(49)],
      [host |-> StrV("n2"), mem_used_pct |-> IntV(50)],
      [host |-> StrV("n3"), mem_used_pct |-> FloatV(5050)],
      [host |-> StrV("n4"), mem_used_pct |-> IntV(51)] }

Record95 == [host |-> StrV("n5"), mem_used_pct |-> IntV(95)]

\* five records: four near 50 and, at any position, the one with 95
BatchesScenario ==
    {[i \in 1..Len(near) + 1 |->
         IF i < at THEN near[i] ELSE IF i = at THEN Record95 ELSE near[i - 1]] :
     near \in [1..4 -> RecordsNear50], at \in 1..5}

\* batches long enough for a column to have the 4 numbers the IQR test needs
BatchesIQR == UNION {[1..n -> RecordsIQR] : n \in 4..5}

\* Records of the suggest_actions specification.  a1: every rule field
\* present and healthy; a2: no rule field, no host; a3: every rule field None
\* or text; the others set the fields of one or two rules; the last two are
\* a second record of host a13 and a second record without host.
RecordsAct ==
    { [host |-> StrV("a1"), license_status |-> StrV("OK"), license_expired |-> IntV(0),
       mem_used_pct |-> FloatV(4000), iface_total |-> IntV(10), iface_enabled |-> IntV(8),
       iface_enabled_ratio |-> FloatV(80), bgp_peers |-> IntV(2),
       bgp_keepalive |-> IntV(10), bgp_hold |-> IntV(40), uptime_days |-> IntV(12),
       hc_cpu_1min |-> FloatV(1000), hc_cpu_threshold |-> FloatV(8000),
       hc_mem_util |-> FloatV(4000), hc_mem_threshold |-> FloatV(8500),
       hc_uptime_min |-> FloatV(50000), hc_uptime_min_threshold |-> FloatV(6000),
       hc_env_over |-> FloatV(0), hc_env_temp |-> FloatV(3000),
       hc_env_temp_threshold |-> FloatV(4500), hc_power_ok |-> FloatV(100),
       hc_fans_status |-> StrV("OK"), hc_result |-> StrV("PASS")],
      [os_type |-> StrV("ios")],
      [host |-> StrV("a3"), license_status |-> None, license_expired |-> StrV("1"),
       mem_used_pct |-> StrV("n/a"), iface_total |-> StrV("10"), iface_enabled |-> None,
       iface_enabled_ratio |-> StrV("0.3"), bgp_peers |-> StrV("none"),
       bgp_keepalive |-> None, bgp_hold |-> StrV("20"), uptime_days |-> StrV("0"),
       hc_cpu_1min |-> StrV("99"), hc_cpu_threshold |-> None,
       hc_mem_util |-> None, hc_mem_threshold |-> StrV("85"),
       hc_uptime_min |-> StrV("5"), hc_uptime_min_threshold |-> None,
       hc_env_over |-> StrV("1"), hc_env_temp |-> None,
       hc_env_temp_threshold |-> None, hc_power_ok |-> StrV("0"),
       hc_fans_status |-> None, hc_result |-> None],
      [host |-> StrV("a4"), bgp_peers |-> IntV(2), bgp_keepalive |-> IntV(10),
       bgp_hold |-> IntV(20)],
      [host |-> StrV("a5"), bgp_peers |-> IntV(2), bgp_keepalive |-> IntV(10),
       bgp_hold |-> IntV(30)],
      [host |-> StrV("a6"), bgp_keepalive |-> IntV(10), bgp_hold |-> IntV(20)],
      [host |-> StrV("a7"), bgp_peers |-> IntV(0), bgp_keepalive |-> None,
       bgp_hold |-> IntV(20), mem_used_pct |-> StrV("n/a")],
      [host |-> StrV("a8"), iface_total |-> IntV(10), iface_enabled |-> IntV(3),
       iface_enabled_ratio |-> FloatV(30)],
      [host |-> StrV("a9"), iface_total |-> IntV(10), iface_enabled_ratio |-> FloatV(30)],
      [host |-> StrV("a10"), iface_total |-> FloatV(1000), iface_enabled |-> IntV(3),
       iface_enabled_ratio |-> FloatV(30)],
      [host |-> StrV("a11"), iface_total |-> IntV(0), iface_enabled |-> IntV(0),
       iface_enabled_ratio |-> FloatV(0)],
      [host |-> StrV("a12"), iface_total |-> IntV(10), iface_enabled |-> IntV(5),
       iface_enabled_ratio |-> FloatV(50), uptime_days |-> StrV("0")],
      [host |-> StrV("a13"), hc_result |-> StrV("FAIL")],
      [host |-> StrV("a14"), hc_result |-> StrV("Fail"), mem_used_pct |-> IntV(90),
       iface_total |-> StrV("10"), iface_enabled |-> IntV(3),
       iface_enabled_ratio |-> FloatV(30)],
      [host |-> StrV("a15"), uptime_days |-> IntV(0), mem_used_pct |-> StrV("n/a"),
       bgp_peers |-> None, bgp_keepalive |-> IntV(10), bgp_hold |-> IntV(20)],
      [host |-> StrV("a16"), uptime_days |-> IntV(0), mem_used_pct |-> IntV(90),
       license_status |-> StrV("EXPIRED"), license_expired |-> IntV(1)],
      [host |-> StrV("a13"), mem_used_pct |-> IntV(90)],
      [mem_used_pct |-> IntV(90)] }

\* suggest_actions is called with the anomalies: no, one or two records
BatchesAct == UNION {[1..n -> RecordsAct] : n \in 0..2}

\* Records as parse_report builds them: license_expired 0 or 1, interface
\* counts with their ratio (1.0 for no interface), mem_used_pct a float
\* or None.
RecordsIndex ==
    { [host |-> StrV("i1"), license_status |-> StrV("OK"), license_expired |-> IntV(0),
       mem_used_pct |-> FloatV(4000), iface_total |-> IntV(10), iface_enabled |-> IntV(8),
       iface_enabled_ratio |-> FloatV(80)],
      [host |-> StrV("i2"), license_status |-> StrV("EXPIRED"), license_expired |-> IntV(1),
       mem_used_pct |-> FloatV(4000), iface_total |-> IntV(10), iface_enabled |-> IntV(8),
       iface_enabled_ratio |-> FloatV(80)],
      [host |-> StrV("i3"), license_status |-> StrV("OK"), license_expired |-> IntV(0),
       mem_used_pct |-> None, iface_total |-> IntV(20), iface_enabled |-> IntV(11),
       iface_enabled_ratio |-> FloatV(55)],
      [host |-> StrV("i4"), license_status |-> StrV("UNKNOWN"), license_expired |-> IntV(0),
       mem_used_pct |-> FloatV(8500), iface_total |-> IntV(0), iface_enabled |-> IntV(0),
       iface_enabled_ratio |-> FloatV(100)],
      [host |-> StrV("i5"), license_status |-> StrV("OK"), license_expired |-> IntV(0),
       mem_used_pct |-> FloatV(8499), iface_total |-> IntV(10), iface_enabled |-> IntV(6),
       iface_enabled_ratio |-> FloatV(60)] }

\* the uploads directory holds no, one or two reports
BatchesIndex == UNION {[1..n -> RecordsIndex] : n \in 0..2}

\* ---------------------------------------------------------------- actions
BuildFeatureMatrix ==
    /\ fm' = [op |-> "build"] @@ _build_feature_matrix(rows)
    /\ op' = "build"
    /\ UNCHANGED <<rows, haveLearner, res, runs, healthVars, uiVars>>

\* Detection runs on the freshly loaded batch, once (app.py index).
DetectIForest ==
    /\ res = NoResult
    /\ LET built == _build_feature_matrix(rows)
       IN  \E c \in ContamVals, pred \in Preds(Len(rows)), scores \in Scores(Len(rows)) :
              LET r == iforest_result(rows, built, haveLearner, c, pred, scores)
              IN  /\ res' = r
                  /\ rows' = IF r.fitted THEN attach_scores(rows, r.idxs, scores) ELSE rows
    /\ op' = "iforest"
    /\ UNCHANGED <<haveLearner, fm, runs, healthVars, uiVars>>

DetectIqr ==
    /\ \E k10 \in KVals : res' = detect_outliers_iqr(rows, k10)
    /\ op' = "iqr"
    /\ UNCHANGED <<rows, haveLearner, fm, runs, healthVars, uiVars>>

\* index runs the rule pass when the batch is not empty and detection
\* returned no anomalies
RuleFlags ==
    /\ rows # <<>>
    /\ res.op = "iforest" /\ res.idxs = <<>>
    /\ res' = rule_flags(rows)
    /\ op' = "rule_flags"
    /\ UNCHANGED <<rows, haveLearner, fm, runs, healthVars, uiVars>>

\* suggest_actions on the anomalies the last detection returned
SuggestActions ==
    /\ res.op \in {"iforest", "iqr", "rule_flags"}
    /\ res.op = "rule_flags" => ~ res.raised
    /\ res' = [op |-> "suggest", via |-> res.op, input |-> res.idxs,
               actions |-> suggest_actions([p \in 1..Len(res.idxs) |-> rows[res.idxs[p]]])]
    /\ op' = "suggest"
    /\ UNCHANGED <<rows, haveLearner, fm, runs, healthVars, uiVars>>

\* detect_outliers_iqr with any spread factor, keeping what _iqr_flags
\* computed for each column
DetectIqrAnyK ==
    /\ res = NoResult
    /\ LET cols == _candidate_numeric_cols(rows)
           column == [c \in 1..Len(cols) |-> [i \in 1..Len(rows) |-> get(rows[i], cols[c])]]
       IN  \E k10 \in KValsIQR :
              res' = detect_outliers_iqr(rows, k10)
                       @@ [k |-> k10,
                           bounds |-> [c \in 1..Len(cols) |-> iqr_bounds(column[c], k10)],
                           flags |-> [c \in 1..Len(cols) |-> _iqr_flags(column[c], k10)]]
    /\ op' = "iqr"
    /\ UNCHANGED <<rows, haveLearner, fm, runs, healthVars, uiVars>>

\* suggest_actions(rows), called directly; raised records an exception
SuggestActionsDirect ==
    /\ res = NoResult
    /\ LET raised == \E i \in 1..Len(rows) : suggest_raises(rows[i])
       IN  res' = [op |-> "suggest", via |-> "direct",
                   input |-> [i \in 1..Len(rows) |-> i], raised |-> raised,
                   actions |-> IF raised THEN <<>> ELSE suggest_actions(rows)]
    /\ op' = "suggest"
    /\ UNCHANGED <<rows, haveLearner, fm, runs, healthVars, uiVars>>

\* index: if rows: detect_outliers_iforest(rows, contamination=0.20, ...)
IndexDetect ==
    /\ op = "load" /\ rows # <<>>
    /\ LET built == _build_feature_matrix(rows)
       IN  \E pred \in Preds(Len(rows)), scores \in Scores(Len(rows)) :
              LET r == iforest_result(rows, built, haveLearner, 20, pred, scores)
              IN  /\ res' = r
                  /\ rows' = IF r.fitted THEN attach_scores(rows, r.idxs, scores) ELSE rows
    /\ op' = "iforest"
    /\ UNCHANGED <<haveLearner, fm, runs, healthVars, uiVars>>

\* index: actions = suggest_actions(anomalies) if anomalies else {}, once
\* detection and, where it ran, the rule pass are done
IndexSuggest ==
    /\ \/ op = "load" /\ rows = <<>>
       \/ op = "iforest" /\ res.idxs # <<>>
       \/ op = "rule_flags" /\ ~ res.raised
    /\ LET anomalies == IF op = "load" THEN <<>> ELSE res.idxs
       IN  res' = [op |-> "suggest", via |-> op, input |-> anomalies,
                   actions |-> suggest_actions([p \in 1..Len(anomalies) |-> rows[anomalies[p]]])]
    /\ op' = "suggest"
    /\ UNCHANGED <<rows, haveLearner, fm, runs, healthVars, uiVars>>

\* Records of the detector specification
RecordsDet ==
    { [host |-> StrV("r1"), mem_used_pct |-> IntV(40), license_expired |-> IntV(0),
       license_status |-> StrV("OK")],
      [host |-> StrV("r2"), mem_used_pct |-> FloatV(9050), license_expired |-> IntV(1),
       license_status |-> StrV("EXPIRED")] }

Init ==
    /\ rows \in BatchesOf(RecordsDet)
    /\ haveLearner \in BOOLEAN
    /\ op = "load"
    /\ fm = NoResult
    /\ res = NoResult
    /\ runs = <<>>
    /\ NoHealth
    /\ NoUi

Next ==
    \/ BuildFeatureMatrix
    \/ DetectIForest
    \/ DetectIqr
    \/ RuleFlags
    \/ SuggestActions

Spec == Init /\ [][Next]_vars

InitFM ==
    /\ rows \in BatchesOf(RecordsFM)
    /\ haveLearner = TRUE
    /\ op = "load"
    /\ fm = NoResult
    /\ res = NoResult
    /\ runs = <<>>
    /\ NoHealth
    /\ NoUi

NextFM == BuildFeatureMatrix

SpecFM == InitFM /\ [][NextFM]_vars

InitActions ==
    /\ rows \in BatchesAct
    /\ haveLearner = TRUE
    /\ op = "load"
    /\ fm = NoResult
    /\ res = NoResult
    /\ runs = <<>>
    /\ NoHealth
    /\ NoUi

NextActions == SuggestActionsDirect

SpecActions == InitActions /\ [][NextActions]_vars

InitIndex ==
    /\ rows \in BatchesIndex
    /\ haveLearner \in BOOLEAN
    /\ op = "load"
    /\ fm = NoResult
    /\ res = NoResult
    /\ runs = <<>>
    /\ NoHealth
    /\ NoUi

NextIndex ==
    \/ IndexDetect
    \/ RuleFlags
    \/ IndexSuggest

SpecIndex == InitIndex /\ [][NextIndex]_vars

InitScenario ==
    /\ rows \in BatchesScenario
    /\ haveLearner = TRUE
    /\ op = "load"
    /\ fm = NoResult
    /\ res = NoResult
    /\ runs = <<>>
    /\ NoHealth
    /\ NoUi

NextScenario == DetectIqr

SpecScenario == InitScenario /\ [][NextScenario]_vars

InitIQR ==
    /\ rows \in BatchesIQR
    /\ haveLearner = TRUE
    /\ op = "load"
    /\ fm = NoResult
    /\ res = NoResult
    /\ runs = <<>>
    /\ NoHealth
    /\ NoUi

NextIQR == DetectIqrAnyK

SpecIQR == InitIQR /\ [][NextIQR]_vars

\* ---------------------------------------------------------------- rule pass on any records
\* Records of the rule-pass specification: the four fields the pass reads,
\* absent, None, text and numbers.
RecordsRule ==
    { [host |-> StrV("g1")],
      [host |-> StrV("g2"), iface_total |-> None],
      [host |-> StrV("g3"), iface_total |-> StrV("n/a")],
      [host |-> StrV("g4"), iface_total |-> IntV(10), iface_enabled_ratio |-> None],
      [host |-> StrV("g5"), iface_total |-> IntV(10), iface_enabled_ratio |-> StrV("n/a")],
      [host |-> StrV("g6"), mem_used_pct |-> StrV("n/a")],
      [host |-> StrV("g7"), mem_used_pct |-> None, license_expired |-> None],
      [host |-> StrV("g8"), license_expired |-> StrV("n/a"), iface_total |-> IntV(0),
       iface_enabled_ratio |-> None],
      [host |-> StrV("g9"), iface_total |-> IntV(10)],
      [host |-> StrV("g10"), mem_used_pct |-> IntV(90), license_expired |-> StrV("1")],
      [host |-> StrV("g11"), iface_total |-> IntV(10), iface_enabled_ratio |-> FloatV(30)] }

BatchesRule == UNION {[1..n -> RecordsRule] : n \in 1..2}

\* anomalies = rule_flags(rows) on a non-empty batch
RulePassDirect ==
    /\ res = NoResult
    /\ rows # <<>>
    /\ res' = rule_flags(rows)
    /\ op' = "rule_flags"
    /\ UNCHANGED <<rows, haveLearner, fm, runs, healthVars, uiVars>>

InitRule ==
    /\ rows \in BatchesRule
    /\ haveLearner = TRUE
    /\ op = "load"
    /\ fm = NoResult
    /\ res = NoResult
    /\ runs = <<>>
    /\ NoHealth
    /\ NoUi

NextRule == RulePassDirect

SpecRule == InitRule /\ [][NextRule]_vars

\* ---------------------------------------------------------------- a learner that can fail
\* clf.fit, clf.predict and clf.score_samples are calls into the learner;
\* each of them returns or raises.
LearnerOutcomes == {"ok", "fit", "predict", "score_samples"}

\* mutant: a failure of the learner is answered with the empty result
iforest_outcome_fail_open(rs, built, have, c, fails, pred, scores) ==
    LET r == iforest_result(rs, built, have, c, pred, scores)
    IN  IF r.exit = "early" THEN r @@ [learner |-> "unused"]
        ELSE IF fails = "ok" THEN r @@ [learner |-> "ok"]
        ELSE [op |-> "iforest", exit |-> "early", idxs |-> <<>>, feats |-> <<>>,
              scores |-> <<>>, fitted |-> FALSE, learner |-> fails]

\* detect_outliers_iforest has no try/except: an exception of fit, predict or
\* score_samples leaves the function at that line, before idxs is computed
\* and before any score is attached.  learner records what the learner did.
iforest_outcome(rs, built, have, c, fails, pred, scores) ==
    LET r == iforest_result(rs, built, have, c, pred, scores)
    IN  IF r.exit = "early" THEN r @@ [learner |-> "unused"]
        ELSE IF fails = "ok" THEN r @@ [learner |-> "ok"]
        ELSE [op |-> "iforest", exit |-> "raised", error |-> fails, learner |-> fails]

BatchesLearner == UNION {[1..n -> RecordsDet] : n \in 0..3}

\* detect_outliers_iforest(rows, contamination=0.20) with such a learner
DetectIForestLearner ==
    /\ res = NoResult
    /\ LET built == _build_feature_matrix(rows)
       IN  \E fails \in LearnerOutcomes, pred \in Preds(Len(rows)), scores \in Scores(Len(rows)) :
              LET r == iforest_outcome(rows, built, haveLearner, 20, fails, pred, scores)
              IN  /\ res' = r
                  /\ rows' = IF r.exit = "normal" THEN attach_scores(rows, r.idxs, scores)
                             ELSE rows
    /\ op' = "iforest"
    /\ UNCHANGED <<haveLearner, fm, runs, healthVars, uiVars>>

InitLearner ==
    /\ rows \in BatchesLearner
    /\ haveLearner \in BOOLEAN
    /\ op = "load"
    /\ fm = NoResult
    /\ res = NoResult
    /\ runs = <<>>
    /\ NoHealth
    /\ NoUi

NextLearner == DetectIForestLearner

SpecLearner == InitLearner /\ [][NextLearner]_vars

\* ---------------------------------------------------------------- interleaved detection runs
\* Two calls of detect_outliers_iforest whose lists share records (the dicts
\* of rows).  A run is [sel, c, pred0, scores0, alone, pc, snap, idxs, at, ret]:
\* sel lists the positions in rows of the records of the run's own list, snap
\* holds the records the raw loop has read so far, as they were when read,
\* idxs and at are the attach loop, ret is the returned value.  pred0 and
\* scores0 are what the learner (random_state=42) answers for the matrix of
\* the list as it was at the call, alone the result of the call run alone.
RunIds == {1, 2}

\* the lists of the two calls: overlapping in one record, or the same records
RunLists == { <<(<<1, 2>>), (<<2, 3>>)>>, <<(<<1, 2>>), (<<2, 1>>)>> }

NoReturn == [op |-> "none"]

run_batch(rs, sel) == [p \in 1..Len(sel) |-> rs[sel[p]]]

\* mutant: records that already carry a score are left out of the anomalies
run_result_skip_scored(snap, c, pred, scores) ==
    LET r == iforest_result(snap, _build_feature_matrix(snap), TRUE, c, pred, scores)
    IN  IF r.exit = "normal"
        THEN [r EXCEPT !.idxs = SelectSeq(@, LAMBDA i : "_iforest_score" \notin DOMAIN snap[i])]
        ELSE r

\* lines 141-168 on the records as the run read them
run_result(snap, c, pred, scores) ==
    iforest_result(snap, _build_feature_matrix(snap), TRUE, c, pred, scores)

\* rows[i]["_iforest_score"] = float(scores[i]), one record
run_attach(rs, i, score) ==
    [rs EXCEPT ![i] = ("_iforest_score" :> FloatV(score)) @@ @]

\* for r in rows: vec = [...r.get(k)...]: the raw loop reads one more record
RunRead(r) ==
    /\ runs[r].pc = "build"
    /\ Len(runs[r].snap) < Len(runs[r].sel)
    /\ runs' = [runs EXCEPT ![r].snap = Append(@, rows[runs[r].sel[Len(@) + 1]])]
    /\ UNCHANGED <<rows, haveLearner, op, fm, res, healthVars, uiVars>>

\* the rest of _build_feature_matrix, the early exit, fit, predict,
\* score_samples and idxs: local to the run.  The learner answers pred0 and
\* scores0 for the matrix of the call run alone, and anything for another one.
RunFit(r) ==
    /\ runs[r].pc = "build"
    /\ Len(runs[r].snap) = Len(runs[r].sel)
    /\ LET run == runs[r]
           n == Len(run.sel)
           asAlone == /\ run.alone.exit = "normal"
                      /\ _build_feature_matrix(run.snap).X = run.alone.X
           after(out) ==
               IF out.exit = "early"
               THEN [run EXCEPT !.pc = "done", !.ret = out]
               ELSE [run EXCEPT !.pc = "attach", !.idxs = out.idxs, !.at = 1, !.ret = out]
       IN  IF asAlone
           THEN runs' = [runs EXCEPT
                           ![r] = after(run_result(run.snap, run.c, run.pred0, run.scores0))]
           ELSE \E pred \in Preds(n), scores \in Scores(n) :
                   runs' = [runs EXCEPT ![r] = after(run_result(run.snap, run.c, pred, scores))]
    /\ UNCHANGED <<rows, haveLearner, op, fm, res, healthVars, uiVars>>

\* for i in idxs: rows[i]["_iforest_score"] = float(scores[i]), one iteration
RunAttach(r) ==
    /\ runs[r].pc = "attach"
    /\ runs[r].at <= Len(runs[r].idxs)
    /\ LET run == runs[r]
           i == run.idxs[run.at]
       IN  rows' = run_attach(rows, run.sel[i], run.ret.score_samples[i])
    /\ runs' = [runs EXCEPT ![r].at = @ + 1]
    /\ UNCHANGED <<haveLearner, op, fm, res, healthVars, uiVars>>

\* return anomalies, feats, [float(scores[i]) for i in idxs]
RunReturn(r) ==
    /\ runs[r].pc = "attach"
    /\ runs[r].at > Len(runs[r].idxs)
    /\ runs' = [runs EXCEPT ![r].pc = "done"]
    /\ UNCHANGED <<rows, haveLearner, op, fm, res, healthVars, uiVars>>

InitRuns ==
    /\ rows \in [1..3 -> RecordsDet]
    /\ haveLearner = TRUE
    /\ op = "load"
    /\ fm = NoResult
    /\ res = NoResult
    /\ \E lists \in RunLists :
          \E pred \in [RunIds -> Preds(2)], scores \in [RunIds -> Scores(2)] :
             runs = [r \in RunIds |->
                        [sel |-> lists[r], c |-> 20, pred0 |-> pred[r], scores0 |-> scores[r],
                         alone |-> run_result(run_batch(rows, lists[r]), 20, pred[r], scores[r]),
                         pc |-> "build", snap |-> <<>>, idxs |-> <<>>, at |-> 0,
                         ret |-> NoReturn]]
    /\ NoHealth
    /\ NoUi

NextRuns ==
    \E r \in RunIds :
        \/ RunRead(r)
        \/ RunFit(r)
        \/ RunAttach(r)
        \/ RunReturn(r)

SpecRuns == InitRuns /\ [][NextRuns]_vars

\* ---------------------------------------------------------------- repeated detection
\* detect_outliers_iforest called again and again on the same list, with any
\* contamination.  The records' candidate fields do not change, so the matrix
\* and (random_state=42) the score_samples are those of the call before, and
\* so are the decisions when the clamped contamination is the same.
DetectIForestAgain ==
    /\ LET built == _build_feature_matrix(rows)
           n == Len(rows)
       IN  \E c \in ContamVals, pred \in Preds(n), scores \in Scores(n) :
              /\ (res.op = "iforest" /\ res.exit = "normal" /\ res.X = built.X)
                     => /\ scores = res.score_samples
                        /\ clamp_contamination(c) = res.contamination => pred = res.pred
              /\ LET r == iforest_result(rows, built, haveLearner, c, pred, scores)
                 IN  /\ res' = r
                     /\ rows' = IF r.fitted THEN attach_scores(rows, r.idxs, scores) ELSE rows
    /\ op' = "iforest"
    /\ UNCHANGED <<haveLearner, fm, runs, healthVars, uiVars>>

InitAgain ==
    /\ rows \in UNION {[1..n -> RecordsDet] : n \in 1..2}
    /\ haveLearner = TRUE
    /\ op = "load"
    /\ fm = NoResult
    /\ res = NoResult
    /\ runs = <<>>
    /\ NoHealth
    /\ NoUi

NextAgain == DetectIForestAgain

SpecAgain == InitAgain /\ [][NextAgain]_vars

\* ---------------------------------------------------------------- both detectors on one list
\* Eight records with different mem_used_pct, as a list of 8, 5 or 4.
RecordsBoth ==
    << [host |-> StrV("b1"), mem_used_pct |-> IntV(50)],
       [host |-> StrV("b2"), mem_used_pct |-> IntV(51)],
       [host |-> StrV("b3"), mem_used_pct |-> FloatV(4950)],
       [host |-> StrV("b4"), mem_used_pct |-> IntV(95)],
       [host |-> StrV("b5"), mem_used_pct |-> IntV(52)],
       [host |-> StrV("b6"), mem_used_pct |-> IntV(48)],
       [host |-> StrV("b7"), mem_used_pct |-> FloatV(5050)],
       [host |-> StrV("b8"), mem_used_pct |-> FloatV(5150)] >>

BatchesBoth == {SubSeq(RecordsBoth, 1, n) : n \in {4, 5, 8}}

\* The learner's threshold is the contamination quantile of the scores, and
\* the contamination is at most 0.5: at most half of the rows are flagged.
PredsHalf(n) == {p \in Preds(n) : 2 * Cardinality({i \in 1..n : p[i] = -1}) <= n}

\* score_samples: all different, all equal, or two values
ScoresBoth(n) ==
    { [i \in 1..n |-> -40 - i], [i \in 1..n |-> -45], [i \in 1..n |-> -40 - 5 * (i % 2)] }

\* detect_outliers_iforest(rows, contamination=0.5) on the loaded list
DetectIForestHalf ==
    /\ op = "load"
    /\ LET built == _build_feature_matrix(rows)
       IN  \E pred \in PredsHalf(Len(rows)), scores \in ScoresBoth(Len(rows)) :
              LET r == iforest_result(rows, built, haveLearner, 50, pred, scores)
              IN  /\ res' = r
                  /\ rows' = IF r.fitted THEN attach_scores(rows, r.idxs, scores) ELSE rows
    /\ op' = "iforest"
    /\ UNCHANGED <<haveLearner, fm, runs, healthVars, uiVars>>

InitBoth ==
    /\ rows \in BatchesBoth
    /\ haveLearner = TRUE
    /\ op = "load"
    /\ fm = NoResult
    /\ res = NoResult
    /\ runs = <<>>
    /\ NoHealth
    /\ NoUi

NextBoth ==
    \/ DetectIForestHalf
    \/ DetectIqr

SpecBoth == InitBoth /\ [][NextBoth]_vars

\* ---------------------------------------------------------------- loader.py health checks
\* A health-check file is [sections, result]: sections maps the names of the
\* sub-checks of "health_checks" to their dicts, result is the value of its
\* "result" key (None when absent).  The dicts nested in "environment" are
\* flattened: "temperature.current_temp" is ev["temperature"]["current_temp"].

\* _safe_num: float(x) under try/except
_safe_num(x) == IF _num(x) = <<>> THEN None ELSE FloatV(_num(x)[1])

\* str(d.get(key, "")): the text of a number or of None is none of the words
\* compared with
str_get(d, key) ==
    IF key \notin DOMAIN d THEN ""
    ELSE IF d[key].t = "str" THEN d[key].s ELSE "<repr>"

\* _merge_health(hout, hc): the accumulator after the call
_merge_health(h, hc) ==
    LET checks == hc.sections
        has(name) == name \in DOMAIN checks
        num(name, key) == _safe_num(get(checks[name], key))
        h1 == IF has("cpu_utilization")
              THEN ("hc_cpu_1min" :> num("cpu_utilization", "1_min_avg"))
                   @@ ("hc_cpu_5min" :> num("cpu_utilization", "5_min_avg"))
                   @@ ("hc_cpu_threshold" :> num("cpu_utilization", "threshold")) @@ h
              ELSE h
        h2 == IF has("memory_utilization")
              THEN ("hc_mem_util" :> num("memory_utilization", "current_utilization"))
                   @@ ("hc_mem_threshold" :> num("memory_utilization", "threshold")) @@ h1
              ELSE h1
        h3 == IF has("memory_free")
              THEN ("hc_mem_free" :> num("memory_free", "current_free"))
                   @@ ("hc_mem_free_mb" :> num("memory_free", "free_mb")) @@ h2
              ELSE h2
        h4 == IF has("memory_buffers")
              THEN ("hc_mem_buffers" :> num("memory_buffers", "current_buffers"))
                   @@ ("hc_mem_buffers_mb" :> num("memory_buffers", "buffers_mb")) @@ h3
              ELSE h3
        h5 == IF has("memory_cache")
              THEN ("hc_mem_cache" :> num("memory_cache", "current_cache"))
                   @@ ("hc_mem_cache_mb" :> num("memory_cache", "cache_mb")) @@ h4
              ELSE h4
        h6 == IF has("uptime")
              THEN ("hc_uptime_min" :> num("uptime", "current_uptime"))
                   @@ ("hc_uptime_min_threshold" :> num("uptime", "min_uptime")) @@ h5
              ELSE h5
        h7 == IF has("environment")
              THEN LET ev == checks["environment"]
                       cur_t == num("environment", "temperature.current_temp")
                       thr_t == num("environment", "temperature.threshold")
                       over == IF cur_t # None /\ thr_t # None
                               THEN ("hc_env_over" :> FloatV(Max(cur_t.n - thr_t.n, 0))) @@ h6
                               ELSE h6
                   IN  ("hc_env_temp" :> cur_t) @@ ("hc_env_temp_threshold" :> thr_t)
                       @@ ("hc_fans_status" :> get(ev, "fans.status"))
                       @@ ("hc_power_ok" :> IF upper(str_get(ev, "power.status")) = "OK"
                                            THEN FloatV(100) ELSE FloatV(0))
                       @@ over
              ELSE h6
        result == IF hc.result.t = "str" THEN upper(hc.result.s) ELSE "<repr>"
        h8 == IF ~ Truthy(hc.result) THEN h7
              ELSE IF "hc_result" \notin DOMAIN h7 THEN ("hc_result" :> StrV(result)) @@ h7
              ELSE IF result = "FAIL" THEN ("hc_result" :> StrV("FAIL")) @@ h7
              ELSE h7
        statuses == Cardinality({k \in DOMAIN checks \ {"uptime_status_summary"} :
                                    upper(str_get(checks[k], "status")) = "FAIL"})
        fail_cnt == IF "hc_env_over" \in DOMAIN h8 /\ h8["hc_env_over"].n > 0
                    THEN statuses + 1 ELSE statuses
        before == IF "hc_fail_count" \in DOMAIN h8 THEN h8["hc_fail_count"].n ELSE 0
    IN  ("hc_fail_count" :> FloatV(before + 100 * fail_cnt)) @@ h8

\* the health-check files of one host
HealthBlocks ==
    { [sections |-> ("cpu_utilization" :>
                        (("status" :> StrV("PASS")) @@ ("1_min_avg" :> IntV(10))
                         @@ ("5_min_avg" :> IntV(12)) @@ ("threshold" :> IntV(80)))),
       result |-> StrV("PASS")],
      [sections |-> ("cpu_utilization" :>
                        (("status" :> StrV("FAIL")) @@ ("1_min_avg" :> IntV(95))
                         @@ ("threshold" :> IntV(80))))
                    @@ ("memory_utilization" :>
                        (("status" :> StrV("fail")) @@ ("current_utilization" :> IntV(90))
                         @@ ("threshold" :> IntV(85)))),
       result |-> StrV("FAIL")],
      [sections |-> ("environment" :>
                        (("status" :> StrV("FAIL"))
                         @@ ("temperature.current_temp" :> IntV(50))
                         @@ ("temperature.threshold" :> IntV(45))
                         @@ ("fans.status" :> StrV("OK")) @@ ("power.status" :> StrV("ok")))),
       result |-> StrV("FAIL")],
      [sections |-> ("environment" :>
                        (("status" :> StrV("PASS"))
                         @@ ("temperature.current_temp" :> IntV(40))
                         @@ ("temperature.threshold" :> IntV(45)))),
       result |-> None],
      [sections |-> ("environment" :> ("status" :> StrV("PASS")))
                    @@ ("memory_free" :> ("free_mb" :> StrV("n/a"))),
       result |-> None],
      [sections |-> ("uptime" :>
                        (("status" :> StrV("PASS")) @@ ("current_uptime" :> IntV(500))
                         @@ ("min_uptime" :> IntV(60))))
                    @@ ("memory_buffers" :> ("buffers_mb" :> IntV(5)))
                    @@ ("memory_cache" :> ("cache_mb" :> IntV(7))),
       result |-> StrV("pass")] }

\* load_healthchecks: _merge_health(d, obj) for the next file of the host
MergeHealth ==
    /\ hdone < Len(hblocks)
    /\ hout' = _merge_health(hout, hblocks[hdone + 1])
    /\ hdone' = hdone + 1
    /\ UNCHANGED <<rows, haveLearner, op, fm, res, runs, hblocks, uiVars>>

InitHealth ==
    /\ rows = <<>>
    /\ haveLearner = TRUE
    /\ op = "load"
    /\ fm = NoResult
    /\ res = NoResult
    /\ runs = <<>>
    /\ hblocks \in UNION {[1..n -> HealthBlocks] : n \in 1..3}
    /\ hout = <<>>
    /\ hdone = 0
    /\ NoUi

NextHealth == MergeHealth

SpecHealth == InitHealth /\ [][NextHealth]_vars

\* ---------------------------------------------------------------- network_analytics.py UI tools
\* start_ui and stop_ui share ui.pid with every server process that uses the
\* same output directory.  A call is [fn, pc, pid, status]: the tool, the
\* statement it is at, its local pid and the status it returned last.  alive
\* holds the pids of the running uvicorn processes start_ui launched,
\* signalled those of them a SIGTERM was sent to.
CallerIds == {1, 2}

\* process ids; the id of an exited process can be given out again
Pids == {1, 2, 3}

IdleCall == [fn |-> "none", pc |-> "idle", pid |-> 0, status |-> "none"]

\* _pid_alive(pid): os.kill(pid, 0) succeeds
_pid_alive(pid) == pid \in alive

\* start_ui is called; os.path.exists(app_path) decides whether it goes on
StartUiBegin(c) ==
    /\ calls[c].pc = "idle"
    /\ \E found \in BOOLEAN :
          calls' = [calls EXCEPT ![c] =
                      IF found THEN [fn |-> "start_ui", pc |-> "s_exists", pid |-> 0,
                                     status |-> "none"]
                      ELSE [fn |-> "start_ui", pc |-> "idle", pid |-> 0,
                            status |-> "app not found"]]
    /\ UNCHANGED <<rows, haveLearner, op, fm, res, runs, healthVars, pidFile, alive, signalled>>

\* if os.path.exists(UI_PID_FILE)
StartUiExists(c) ==
    /\ calls[c].pc = "s_exists"
    /\ calls' = [calls EXCEPT ![c].pc = IF pidFile.exists THEN "s_read" ELSE "s_popen"]
    /\ UNCHANGED <<rows, haveLearner, op, fm, res, runs, healthVars, pidFile, alive, signalled>>

\* pid = int(open(UI_PID_FILE).read().strip()); if _pid_alive(pid): return
\* "already running"; a missing or empty file raises and is passed over
StartUiRead(c) ==
    /\ calls[c].pc = "s_read"
    /\ calls' = [calls EXCEPT ![c] =
                   IF pidFile.exists /\ pidFile.pid # 0 /\ _pid_alive(pidFile.pid)
                   THEN [fn |-> "start_ui", pc |-> "idle", pid |-> pidFile.pid,
                         status |-> "already running"]
                   ELSE [@ EXCEPT !.pc = "s_popen"]]
    /\ UNCHANGED <<rows, haveLearner, op, fm, res, runs, healthVars, pidFile, alive, signalled>>

\* proc = subprocess.Popen(cmd, ...)
StartUiPopen(c) ==
    /\ calls[c].pc = "s_popen"
    /\ \E p \in Pids \ alive :
          /\ alive' = alive \cup {p}
          /\ calls' = [calls EXCEPT ![c].pc = "s_open", ![c].pid = p]
    /\ UNCHANGED <<rows, haveLearner, op, fm, res, runs, healthVars, pidFile, signalled>>

\* open(UI_PID_FILE, "w"): the file exists and is empty
StartUiOpen(c) ==
    /\ calls[c].pc = "s_open"
    /\ pidFile' = [exists |-> TRUE, pid |-> 0]
    /\ calls' = [calls EXCEPT ![c].pc = "s_write"]
    /\ UNCHANGED <<rows, haveLearner, op, fm, res, runs, healthVars, alive, signalled>>

\* f.write(str(proc.pid)) and close; return "started".  A file removed since
\* the open stays removed.
StartUiWrite(c) ==
    /\ calls[c].pc = "s_write"
    /\ pidFile' = IF pidFile.exists THEN [exists |-> TRUE, pid |-> calls[c].pid] ELSE pidFile
    /\ calls' = [calls EXCEPT ![c].pc = "idle", ![c].status = "started"]
    /\ UNCHANGED <<rows, haveLearner, op, fm, res, runs, healthVars, alive, signalled>>

\* stop_ui is called
StopUiBegin(c) ==
    /\ calls[c].pc = "idle"
    /\ calls' = [calls EXCEPT ![c] = [fn |-> "stop_ui", pc |-> "t_exists", pid |-> 0,
                                      status |-> "none"]]
    /\ UNCHANGED <<rows, haveLearner, op, fm, res, runs, healthVars, pidFile, alive, signalled>>

\* if not os.path.exists(UI_PID_FILE): return "not running"
StopUiExists(c) ==
    /\ calls[c].pc = "t_exists"
    /\ calls' = [calls EXCEPT ![c] =
                   IF pidFile.exists THEN [@ EXCEPT !.pc = "t_kill"]
                   ELSE [@ EXCEPT !.pc = "idle", !.status = "not running"]]
    /\ UNCHANGED <<rows, haveLearner, op, fm, res, runs, healthVars, pidFile, alive, signalled>>

\* pid = int(open(UI_PID_FILE).read().strip()); os.kill(pid, signal.SIGTERM):
\* the signal is sent, the call does not wait for the process; a missing or
\* empty file and a dead pid raise and are passed over
StopUiKill(c) ==
    /\ calls[c].pc = "t_kill"
    /\ LET named == IF pidFile.exists THEN pidFile.pid ELSE 0
       IN  /\ signalled' = IF named # 0 /\ named \in alive THEN signalled \cup {named}
                           ELSE signalled
           /\ calls' = [calls EXCEPT ![c].pc = "t_remove", ![c].pid = named]
    /\ UNCHANGED <<rows, haveLearner, op, fm, res, runs, healthVars, pidFile, alive>>

\* os.remove(UI_PID_FILE); return "stopped"
StopUiRemove(c) ==
    /\ calls[c].pc = "t_remove"
    /\ pidFile' = NoPidFile
    /\ calls' = [calls EXCEPT ![c].pc = "idle", ![c].status = "stopped"]
    /\ UNCHANGED <<rows, haveLearner, op, fm, res, runs, healthVars, alive, signalled>>

\* a uvicorn process ends: after a SIGTERM, or on its own
ProcExit(p) ==
    /\ p \in alive
    /\ alive' = alive \ {p}
    /\ signalled' = signalled \ {p}
    /\ UNCHANGED <<rows, haveLearner, op, fm, res, runs, healthVars, pidFile, calls>>

InitUi ==
    /\ rows = <<>>
    /\ haveLearner = TRUE
    /\ op = "load"
    /\ fm = NoResult
    /\ res = NoResult
    /\ runs = <<>>
    /\ NoHealth
    /\ pidFile = NoPidFile
    /\ alive = {}
    /\ signalled = {}
    /\ calls = [c \in CallerIds |-> IdleCall]

NextUi ==
    \/ \E c \in CallerIds :
          \/ StartUiBegin(c)
          \/ StartUiExists(c)
          \/ StartUiRead(c)
          \/ StartUiPopen(c)
          \/ StartUiOpen(c)
          \/ StartUiWrite(c)
          \/ StopUiBegin(c)
          \/ StopUiExists(c)
          \/ StopUiKill(c)
          \/ StopUiRemove(c)
    \/ \E p \in Pids : ProcExit(p)

SpecUi == InitUi /\ [][NextUi]_vars

\* ================================================================ claims
\* the clamped contamination and K = max(1, round(N * c)), stated on their own
Clamped(c) == IF c < 1 THEN 1 ELSE IF c > 50 THEN 50 ELSE c

ExpectedK(n, c) ==
    LET nearest == {z \in 0..n : 2 * Abs(100 * z - n * c) <= 100}
        rounded == CHOOSE z \in nearest : Cardinality(nearest) = 1 \/ z % 2 = 0
    IN  IF rounded < 1 THEN 1 ELSE rounded

Ran == res.op = "iforest" /\ res.exit = "normal"
Fallback == Ran /\ \A i \in 1..Len(rows) : res.pred[i] = 1
SomeFlagged == Ran /\ \E i \in 1..Len(rows) : res.pred[i] = -1
Returned == {res.idxs[p] : p \in 1..Len(res.idxs)}

\* C1: when the learner's decisions flag no row, detect_outliers_iforest
\* returns exactly K = max(1, round(N * c)) distinct anomalies and K scores,
\* c being the clamped contamination, and K is at most N.
C1_FallbackReturnsK ==
    Fallback =>
        LET K == ExpectedK(Len(rows), Clamped(res.arg))
        IN  /\ Len(res.idxs) = K
            /\ Cardinality(Returned) = K
            /\ Len(res.scores) = K
            /\ K <= Len(rows)

C1_Witness == Fallback /\ Len(rows) = 3 /\ Len(res.idxs) = 2

\* C2: in the fallback case the returned rows are the K lowest-scoring rows of
\* the batch, listed by ascending score, equal scores in record order.
C2_FallbackLowestFirst ==
    Fallback =>
        LET sc == res.score_samples
            first(i, j) == sc[i] < sc[j] \/ (sc[i] = sc[j] /\ i < j)
        IN  /\ \A p, q \in 1..Len(res.idxs) : p < q => first(res.idxs[p], res.idxs[q])
            /\ \A j \in Returned : \A i \in (1..Len(rows)) \ Returned :
                   sc[j] <= sc[i] /\ first(j, i)

C2_Witness ==
    /\ Fallback /\ Len(res.idxs) = 2
    /\ \E i \in (1..Len(rows)) \ Returned : res.score_samples[i] = res.score_samples[res.idxs[2]]
    /\ res.score_samples[res.idxs[1]] < res.score_samples[res.idxs[2]]

\* C3: when the decisions flag at least one row, exactly the flagged rows are
\* returned, in record order, even if fewer than K, and scores[j] is the
\* learner's score of anomalies[j].
C3_FlaggedReturned ==
    SomeFlagged =>
        /\ Returned = {i \in 1..Len(rows) : res.pred[i] = -1}
        /\ \A p, q \in 1..Len(res.idxs) : p < q => res.idxs[p] < res.idxs[q]
        /\ Len(res.scores) = Len(res.idxs)
        /\ \A p \in 1..Len(res.idxs) : res.scores[p] = res.score_samples[res.idxs[p]]

C3_Witness ==
    SomeFlagged /\ Len(res.idxs) = 1 /\ ExpectedK(Len(rows), Clamped(res.arg)) = 2

\* C4: the contamination handed to the learner and used for K lies in
\* [0.01, 0.5]: below 0.01 it is 0.01, above 0.5 it is 0.5, inside unchanged.
C4_ContaminationClamped ==
    Ran =>
        /\ res.contamination >= 1 /\ res.contamination <= 50
        /\ res.arg < 1 => res.contamination = 1
        /\ res.arg > 50 => res.contamination = 50
        /\ (res.arg >= 1 /\ res.arg <= 50) => res.contamination = res.arg
        /\ res.top_k = ExpectedK(Len(rows), res.contamination)

C4_Witness == Ran /\ res.arg > 50 /\ res.contamination = 50 /\ res.top_k = 2

\* C5: on an empty batch, a matrix without retained features or a missing
\* learner, detect_outliers_iforest returns three empty lists, does not fit
\* the learner and leaves every record as it was.
C5_EarlyExitEmpty ==
    [][(op' = "iforest" /\ (rows = <<>> \/ ~ haveLearner
                             \/ _build_feature_matrix(rows).names = <<>>))
         => /\ res'.idxs = <<>> /\ res'.feats = <<>> /\ res'.scores = <<>>
            /\ ~ res'.fitted
            /\ rows' = rows]_vars

C5_Witness ==
    /\ op = "iforest" /\ res.op = "iforest" /\ res.exit = "early"
    /\ ~ haveLearner /\ _build_feature_matrix(rows).names # <<>>

\* C6: detect_outliers_iforest changes records only by attaching
\* _iforest_score, equal to the returned score, to the returned records;
\* _build_feature_matrix, detect_outliers_iqr, the rule pass and
\* suggest_actions change no record.
C6_OnlyScoreAttached ==
    [][/\ op' = "iforest" =>
            /\ Len(rows') = Len(rows)
            /\ \A p \in 1..Len(res'.idxs) :
                   /\ "_iforest_score" \in DOMAIN rows'[res'.idxs[p]]
                   /\ rows'[res'.idxs[p]]["_iforest_score"] = FloatV(res'.scores[p])
            /\ \A i \in 1..Len(rows) :
                   IF \E p \in 1..Len(res'.idxs) : res'.idxs[p] = i
                   THEN /\ DOMAIN rows'[i] = DOMAIN rows[i] \cup {"_iforest_score"}
                        /\ \A k \in DOMAIN rows[i] \ {"_iforest_score"} :
                               rows'[i][k] = rows[i][k]
                   ELSE rows'[i] = rows[i]
       /\ op' \in {"build", "iqr", "rule_flags", "suggest"} => rows' = rows]_vars

C6_Witness ==
    /\ op = "iforest" /\ Ran /\ Len(res.idxs) = 1 /\ Len(rows) = 3
    /\ \A i \in 1..Len(rows) : ("_iforest_score" \in DOMAIN rows[i]) <=> (i \in Returned)

\* the present values of a candidate field over a batch, coerced, in the
\* matrix's units, and the value at sorted position t among them
Present(rs, k) == {i \in 1..Len(rs) : fm_coerce(rs[i], k) # <<>>}
ValueOf(rs, i, k) == fm_coerce(rs[i], k)[1]
PresentValues(rs, k) == {ValueOf(rs, i, k) : i \in Present(rs, k)}

AtPosition(rs, k, t) ==
    CHOOSE x \in PresentValues(rs, k) :
        /\ Cardinality({i \in Present(rs, k) : ValueOf(rs, i, k) < x}) < t
        /\ t <= Cardinality({i \in Present(rs, k) : ValueOf(rs, i, k) <= x})

MedianOf(rs, k) ==
    LET L == Cardinality(Present(rs, k))
    IN  IF L % 2 = 1 THEN AtPosition(rs, k, (L + 1) \div 2)
        ELSE (AtPosition(rs, k, L \div 2) + AtPosition(rs, k, L \div 2 + 1)) \div 2

Built == fm.op = "build"

\* C7: every column _build_feature_matrix retains has at least two different
\* present values; a field with no, one, or only equal present values is
\* not retained.
C7_NoConstantColumn ==
    Built =>
        \A p \in 1..Len(fm.names) : Cardinality(PresentValues(rows, fm.names[p])) >= 2

C7_Witness ==
    /\ Built /\ fm.names # <<>>
    /\ \E j \in 1..Len(candidates) :
          /\ Cardinality(Present(rows, candidates[j])) >= 2
          /\ Cardinality(PresentValues(rows, candidates[j])) = 1
          /\ \A p \in 1..Len(fm.names) : fm.names[p] # candidates[j]

C9_MatrixShape ==
    Built =>
        LET pos(k) == CHOOSE j \in 1..Len(candidates) : candidates[j] = k
        IN  /\ Len(fm.X) = Len(rows)
            /\ \A i \in 1..Len(rows) : Len(fm.X[i]) = Len(fm.names)
            /\ \A p \in 1..Len(fm.names) : \E j \in 1..Len(candidates) : candidates[j] = fm.names[p]
            /\ \A p, q \in 1..Len(fm.names) : p < q => pos(fm.names[p]) < pos(fm.names[q])
            /\ \A i \in 1..Len(rows) : \A p \in 1..Len(fm.names) :
                   i \in Present(rows, fm.names[p]) =>
                       fm.X[i][p] = ValueOf(rows, i, fm.names[p])
            /\ rows = <<>> => fm.X = <<>> /\ fm.names = <<>>

C9_Witness == Built /\ Len(rows) = 3 /\ Len(fm.names) = 2 /\ fm.X[1] # fm.X[2]

\* C10: rebuilding the matrix of a batch gives the matrix and names built
\* before, also after detect_outliers_iforest attached scores to records.
C10_RebuildIdentical ==
    Built => _build_feature_matrix(rows) = [X |-> fm.X, names |-> fm.names]

C10_Witness ==
    /\ Built /\ fm.names # <<>>
    /\ Cardinality({i \in 1..Len(rows) : "_iforest_score" \in DOMAIN rows[i]}) = 2

\* the number a value stands for when numbers, booleans (0/1) and numeric
\* texts count and everything else is missing
NumberOf(v) ==
    IF IsNumber(v) THEN <<2 * v.n>>
    ELSE IF v.t = "str" /\ v.s \in DOMAIN FloatOfText THEN <<2 * FloatOfText[v.s]>>
    ELSE <<>>

NumbersOf(rs, k) ==
    LET col == [i \in 1..Len(rs) |-> NumberOf(get(rs[i], k))]
        present == SelectSeq(col, LAMBDA o : o # <<>>)
    IN  sorted([p \in 1..Len(present) |-> present[p][1]])

MiddleOf(vals) ==
    LET L == Len(vals)
    IN  IF L % 2 = 1 THEN vals[(L + 1) \div 2]
        ELSE (vals[L \div 2] + vals[L \div 2 + 1]) \div 2

\* C11: in every candidate column an absent, None or non-numeric value is
\* missing: the column is kept exactly when the other values differ, and in
\* a kept column the cell of such a record is the median of the other
\* values; a boolean counts as 0 or 1.
C11_NonNumericIsMissing ==
    Built =>
        \A j \in 1..Len(candidates) :
            LET k == candidates[j]
                vals == NumbersOf(rows, k)
                kept == \E p \in 1..Len(fm.names) : fm.names[p] = k
                col == CHOOSE p \in 1..Len(fm.names) : fm.names[p] = k
            IN  /\ kept <=> (vals # <<>> /\ vals[1] # vals[Len(vals)])
                /\ kept =>
                       \A i \in 1..Len(rows) :
                           LET v == get(rows[i], k)
                           IN  /\ NumberOf(v) = <<>> => fm.X[i][col] = MiddleOf(vals)
                               /\ v.t = "bool" => fm.X[i][col] = 2 * v.n

\* the IQR detector ran and kept, for column c, the quartiles, the bounds
\* and the flags; the value of record i in column c
IqrRan == res.op = "iqr" /\ "bounds" \in DOMAIN res
IqrCols == 1..Len(res.feats)
IqrValue(i, c) == get(rows[i], res.feats[c])

QuartilesOrdered(c) ==
    /\ res.bounds[c].q1 <= res.bounds[c].q3
    /\ EpsLeq(res.bounds[c].lo, res.bounds[c].hi)
    /\ \A i \in 1..Len(rows) :
           (/\ IsNumber(IqrValue(i, c))
            /\ 4 * IqrValue(i, c).n \in {res.bounds[c].q1, res.bounds[c].q3})
               => ~ res.flags[c][i]

\* C12 as stated: for every column and every spread factor k, Q1 <= Q3 and
\* lo <= hi, and a record whose value is exactly Q1 or Q3 is not flagged
\* for that column.
C12_QuartilesOrderedAnyK == IqrRan => \A c \in IqrCols : QuartilesOrdered(c)

\* C12: for every column and every spread factor k >= 0, Q1 <= Q3 and
\* lo <= hi, and a record whose value is exactly Q1 or Q3 is not flagged
\* for that column.
C12_QuartilesOrdered ==
    (IqrRan /\ res.k >= 0) => \A c \in IqrCols : QuartilesOrdered(c)

C12_Witness ==
    /\ IqrRan /\ res.k = 0
    /\ \E c \in IqrCols :
          /\ res.bounds[c].q1 < res.bounds[c].q3
          /\ \E i, j \in 1..Len(rows) :
                /\ IsNumber(IqrValue(i, c)) /\ 4 * IqrValue(i, c).n = res.bounds[c].q1
                /\ IsNumber(IqrValue(j, c)) /\ 4 * IqrValue(j, c).n = res.bounds[c].q3
          /\ \E i \in 1..Len(rows) : res.flags[c][i]

\* the records holding a number in field k, and the distinct numbers held
NumericIn(k) == {i \in 1..Len(rows) : IsNumber(get(rows[i], k))}
DistinctIn(k) == {get(rows[i], k).n : i \in NumericIn(k)}
IqrColumns == {res.feats[c] : c \in IqrCols}

\* C13: a field is an IQR column exactly when it is not an excluded field,
\* holds a number in at least 4 records and at least 3 distinct numbers; a
\* field of booleans only or of two distinct values is not a column, and
\* every column handed to _iqr_flags has at least 4 numbers.
C13_IqrColumns ==
    IqrRan =>
        /\ \A k \in IqrColumns \cup UNION {DOMAIN rows[i] : i \in 1..Len(rows)} :
               /\ k \in IqrColumns <=>
                      /\ k \notin _EXCLUDE_FOR_IQR
                      /\ Cardinality(NumericIn(k)) >= 4
                      /\ Cardinality(DistinctIn(k)) >= 3
               /\ (\A i \in NumericIn(k) : get(rows[i], k).t = "bool") => k \notin IqrColumns
               /\ Cardinality(DistinctIn(k)) <= 2 => k \notin IqrColumns
        /\ DOMAIN res.flags = IqrCols
        /\ \A c \in IqrCols : Cardinality(NumericIn(res.feats[c])) >= 4

C13_Witness ==
    /\ IqrRan /\ IqrColumns = {"mem_used_pct", "uptime_days"}
    /\ Cardinality(NumericIn("version_major")) >= 4
    /\ Cardinality(DistinctIn("version_major")) >= 3
    /\ Cardinality(NumericIn("license_expired")) >= 4
    /\ Cardinality(NumericIn("mem_used_pct")) = 4

\* the t-th smallest number of field k, and the percentile quarters / 4 of
\* the field by linear interpolation at index (n - 1) * quarters / 4, both
\* in quarter-hundredths
NthSmallest(k, t) ==
    CHOOSE x \in DistinctIn(k) :
        /\ Cardinality({i \in NumericIn(k) : get(rows[i], k).n < x}) < t
        /\ t <= Cardinality({i \in NumericIn(k) : get(rows[i], k).n <= x})

Quartile(k, quarters) ==
    LET idx4 == (Cardinality(NumericIn(k)) - 1) * quarters
        below == idx4 \div 4
        w4 == idx4 % 4
    IN  IF w4 = 0 THEN 4 * NthSmallest(k, below + 1)
        ELSE (4 - w4) * NthSmallest(k, below + 1) + w4 * NthSmallest(k, below + 2)

\* value v of field k is strictly outside [Q1 - k * IQR, Q3 + k * IQR],
\* IQR = max(Q3 - Q1, 1e-9), for the spread factor of the run
StrictlyOutside(v, k) ==
    LET Q1 == Quartile(k, 1)
        Q3 == Quartile(k, 3)
        d == Q3 - Q1
        x == [m |-> 40 * v.n, e |-> 0]
        lo == [m |-> 10 * Q1 - res.k * d, e |-> IF d = 0 THEN -res.k ELSE 0]
        hi == [m |-> 10 * Q3 + res.k * d, e |-> IF d = 0 THEN res.k ELSE 0]
    IN  (~ EpsLeq(lo, x)) \/ (~ EpsLeq(x, hi))

\* C14: detect_outliers_iqr returns a record exactly when, in at least one
\* column, its value is a number strictly outside [Q1 - k*IQR, Q3 + k*IQR];
\* a record without a number in any column is not returned; the returned
\* records are in record order and the scores are empty.
C14_IqrReturned ==
    IqrRan =>
        /\ \A i \in 1..Len(rows) :
               /\ i \in Returned <=>
                      \E k \in IqrColumns :
                          /\ IsNumber(get(rows[i], k))
                          /\ StrictlyOutside(get(rows[i], k), k)
               /\ (\A k \in IqrColumns : ~ IsNumber(get(rows[i], k))) => i \notin Returned
        /\ \A p, q \in 1..Len(res.idxs) : p < q => res.idxs[p] < res.idxs[q]
        /\ res.scores = <<>>

C14_Witness ==
    /\ IqrRan /\ res.k > 0 /\ Len(res.idxs) = 2
    /\ \E c, d \in IqrCols : \E i, j \in 1..Len(rows) :
          /\ res.flags[c][i] /\ ~ res.flags[d][i]
          /\ res.flags[d][j] /\ ~ res.flags[c][j]
    /\ \E i \in 1..Len(rows) : \E k \in IqrColumns :
          ~ IsNumber(get(rows[i], k)) /\ i \notin Returned

\* the records with mem_used_pct = 95, and the four other values in order:
\* Near(1) <= Near(2) <= Near(3) <= Near(4)
With95 == {i \in 1..Len(rows) : get(rows[i], "mem_used_pct") = IntV(95)}
Near(t) == NthSmallest("mem_used_pct", t)

\* C15 as stated: for any five records, four with mem_used_pct near 50 and
\* one with 95, detect_outliers_iqr with k = 1.5 returns exactly the record
\* with 95.
C15_OnlyOutlierAnyBatch ==
    res.op = "iqr" => (Len(res.idxs) = 1 /\ Returned = With95)

\* C15: for five records, four with mem_used_pct near 50 and one with 95,
\* where the second smallest value is below the largest of the four and the
\* smallest is less than 1.5 times that difference below the second smallest,
\* detect_outliers_iqr with k = 1.5 returns exactly the record with 95.
C15_OnlyOutlier ==
    (/\ res.op = "iqr"
     /\ Near(2) < Near(4)
     /\ 2 * (Near(2) - Near(1)) < 3 * (Near(4) - Near(2)))
        => (Len(res.idxs) = 1 /\ Returned = With95)

C15_Witness ==
    /\ res.op = "iqr" /\ Len(res.idxs) = 1 /\ Returned = With95
    /\ res.feats = <<"mem_used_pct">>
    /\ Near(1) < Near(2) /\ Near(2) < Near(4)

\* suggest_actions returned; the key and the list of record i, which is the
\* last record of its host
Suggested == res.op = "suggest" /\ res.via = "direct" /\ ~ res.raised
HostKey(i) == IF "host" \in DOMAIN rows[i] THEN rows[i]["host"] ELSE StrV("unknown")
LastOfHost(i) == \A j \in (i + 1)..Len(rows) : HostKey(j) # HostKey(i)
ListOf(i) == res.actions[HostKey(i)]
Hints(i) == {ListOf(i)[p].id : p \in 1..Len(ListOf(i))}

\* a record whose every rule field is present, of its type and within limits
FullyHealthy(r) ==
    /\ get(r, "license_status") = StrV("OK") /\ get(r, "license_expired") = IntV(0)
    /\ IsNumber(get(r, "mem_used_pct")) /\ get(r, "mem_used_pct").n < 8500
    /\ IsNumber(get(r, "iface_enabled_ratio")) /\ get(r, "iface_enabled_ratio").n >= 50
    /\ get(r, "bgp_peers").t = "int" /\ get(r, "bgp_peers").n > 0
    /\ IsNumber(get(r, "bgp_keepalive")) /\ IsNumber(get(r, "bgp_hold"))
    /\ get(r, "bgp_hold").n >= 3 * get(r, "bgp_keepalive").n
    /\ get(r, "uptime_days").t = "int" /\ get(r, "uptime_days").n >= 100
    /\ IsNumber(get(r, "hc_cpu_1min")) /\ IsNumber(get(r, "hc_cpu_threshold"))
    /\ 10 * get(r, "hc_cpu_1min").n < 9 * get(r, "hc_cpu_threshold").n
    /\ IsNumber(get(r, "hc_mem_util")) /\ IsNumber(get(r, "hc_mem_threshold"))
    /\ get(r, "hc_mem_util").n < get(r, "hc_mem_threshold").n
    /\ IsNumber(get(r, "hc_uptime_min")) /\ IsNumber(get(r, "hc_uptime_min_threshold"))
    /\ get(r, "hc_uptime_min").n >= get(r, "hc_uptime_min_threshold").n
    /\ get(r, "hc_env_over") = FloatV(0)
    /\ get(r, "hc_power_ok") = FloatV(100)
    /\ get(r, "hc_fans_status") = StrV("OK")
    /\ get(r, "hc_result") = StrV("PASS")

\* C16: every list suggest_actions returns is non-empty; the baseline
\* message is in a list exactly when the list holds no hint of a rule, and
\* then it is the only element; a fully healthy record gets exactly the
\* baseline message.
C16_BaselineAlone ==
    Suggested =>
        /\ \A h \in DOMAIN res.actions :
               LET list == res.actions[h]
                   isBaseline == {p \in 1..Len(list) : list[p] = Baseline}
               IN  /\ list # <<>>
                   /\ isBaseline # {} <=> isBaseline = DOMAIN list
                   /\ isBaseline # {} => list = <<Baseline>>
        /\ DOMAIN res.actions = {HostKey(i) : i \in 1..Len(rows)}
        /\ \A i \in 1..Len(rows) :
               (LastOfHost(i) /\ FullyHealthy(rows[i])) => ListOf(i) = <<Baseline>>

C16_Witness ==
    /\ Suggested /\ Len(rows) = 2
    /\ FullyHealthy(rows[1]) /\ ListOf(1) = <<Baseline>>
    /\ Len(ListOf(2)) = 3 /\ "baseline" \notin Hints(2)

\* record i holds numbers in bgp_keepalive and bgp_hold; the timer hint is in
\* its list exactly when hold < 3 * keepalive
TimersSet(i) == IsNumber(get(rows[i], "bgp_keepalive")) /\ IsNumber(get(rows[i], "bgp_hold"))
TimerHintAsExpected(i) ==
    "bgp_timers" \in Hints(i)
        <=> get(rows[i], "bgp_hold").n < 3 * get(rows[i], "bgp_keepalive").n

\* C17 as stated: for any record with numbers in bgp_keepalive and bgp_hold
\* the BGP timer hint is emitted exactly when bgp_hold < 3 * bgp_keepalive.
C17_TimerHintAnyRecord ==
    Suggested =>
        \A i \in 1..Len(rows) : (LastOfHost(i) /\ TimersSet(i)) => TimerHintAsExpected(i)

\* C17: for any record whose bgp_peers is present and not None and whose
\* bgp_keepalive and bgp_hold are numbers, the BGP timer hint is emitted
\* exactly when bgp_hold < 3 * bgp_keepalive.
C17_TimerHint ==
    Suggested =>
        \A i \in 1..Len(rows) :
            (LastOfHost(i) /\ TimersSet(i) /\ get(rows[i], "bgp_peers") # None)
                => TimerHintAsExpected(i)

C17_Witness ==
    /\ Suggested /\ Len(rows) = 2
    /\ TimersSet(1) /\ get(rows[1], "bgp_peers") = IntV(2)
    /\ get(rows[1], "bgp_hold") = IntV(20) /\ get(rows[1], "bgp_keepalive") = IntV(10)
    /\ ListOf(1) = <<Msg("bgp_timers", 2000, 1000, "")>>
    /\ TimersSet(2) /\ get(rows[2], "bgp_peers") = IntV(2)
    /\ get(rows[2], "bgp_hold") = IntV(40) /\ get(rows[2], "bgp_keepalive") = IntV(10)
    /\ "bgp_timers" \notin Hints(2)

\* the interface fields of record i, and the hint "disabled/total" built
\* from them
Total(i) == get(rows[i], "iface_total")
Enabled(i) == get(rows[i], "iface_enabled")
Ratio(i) == get(rows[i], "iface_enabled_ratio")
IfaceHint(i) == Msg("iface", Total(i).n - Enabled(i).n, Total(i).n, "")
InList(m, i) == \E p \in 1..Len(ListOf(i)) : ListOf(i)[p] = m
NoIfaceHintWhenZeroOrHalf(i) ==
    ((IsNumber(Total(i)) /\ Total(i).n = 0) \/ (IsNumber(Ratio(i)) /\ Ratio(i).n >= 50))
        => "iface" \notin Hints(i)

\* C18 as stated: for any record with iface_total > 0 and
\* iface_enabled_ratio < 0.5 the interface hint is emitted and reports
\* iface_total - iface_enabled out of iface_total; it is not emitted when
\* iface_total is 0 or the ratio is >= 0.5.
C18_IfaceHintAnyRecord ==
    Suggested =>
        \A i \in 1..Len(rows) :
            LastOfHost(i) =>
                /\ (/\ IsNumber(Total(i)) /\ Total(i).n > 0
                    /\ IsNumber(Ratio(i)) /\ Ratio(i).n < 50) => InList(IfaceHint(i), i)
                /\ NoIfaceHintWhenZeroOrHalf(i)

\* C18: for any record with an integer iface_total > 0, an integer
\* iface_enabled and a numeric iface_enabled_ratio < 0.5 the interface hint
\* is emitted and reports iface_total - iface_enabled out of iface_total;
\* it is not emitted when iface_total is 0 or the ratio is >= 0.5.
C18_IfaceHint ==
    Suggested =>
        \A i \in 1..Len(rows) :
            LastOfHost(i) =>
                /\ (/\ Total(i).t = "int" /\ Total(i).n > 0
                    /\ Enabled(i).t = "int"
                    /\ IsNumber(Ratio(i)) /\ Ratio(i).n < 50) => InList(IfaceHint(i), i)
                /\ NoIfaceHintWhenZeroOrHalf(i)

C18_Witness ==
    /\ Suggested /\ Len(rows) = 2
    /\ Total(1) = IntV(10) /\ Enabled(1) = IntV(3) /\ Ratio(1) = FloatV(30)
    /\ ListOf(1) = <<Msg("iface", 700, 1000, "")>>
    /\ Total(2) = IntV(0) /\ Ratio(2) = FloatV(0) /\ "iface" \notin Hints(2)

\* The rules by their hints and fields: nums are the fields a rule needs as
\* numbers, pres those it needs present, also holds the values it prints.
\* The generic health-check hint, which looks at the other rules, is left out.
RuleTable ==
    { [ids |-> {"license"}, nums |-> {"license_expired"}, pres |-> {"license_status"},
       also |-> {}],
      [ids |-> {"memory"}, nums |-> {"mem_used_pct"}, pres |-> {}, also |-> {}],
      [ids |-> {"iface"}, nums |-> {"iface_total", "iface_enabled", "iface_enabled_ratio"},
       pres |-> {}, also |-> {}],
      [ids |-> {"bgp_down"}, nums |-> {"bgp_peers"}, pres |-> {}, also |-> {}],
      [ids |-> {"bgp_timers"}, nums |-> {"bgp_keepalive", "bgp_hold"},
       pres |-> {"bgp_peers"}, also |-> {}],
      [ids |-> {"reboot"}, nums |-> {"uptime_days"}, pres |-> {}, also |-> {}],
      [ids |-> {"cpu_over", "cpu_near"}, nums |-> {"hc_cpu_1min", "hc_cpu_threshold"},
       pres |-> {}, also |-> {}],
      [ids |-> {"hc_mem"}, nums |-> {"hc_mem_util", "hc_mem_threshold"}, pres |-> {},
       also |-> {}],
      [ids |-> {"uptime_slo"}, nums |-> {"hc_uptime_min", "hc_uptime_min_threshold"},
       pres |-> {}, also |-> {}],
      [ids |-> {"env_temp", "env_temp_plain"}, nums |-> {"hc_env_over"}, pres |-> {},
       also |-> {"hc_env_temp", "hc_env_temp_threshold"}],
      [ids |-> {"power"}, nums |-> {"hc_power_ok"}, pres |-> {}, also |-> {}],
      [ids |-> {"fans"}, nums |-> {}, pres |-> {"hc_fans_status"}, also |-> {}] }

\* a field of rule R that is absent or None, or text where R needs a number
Unusable(R, i) ==
    \/ \E f \in R.nums \cup R.pres : get(rows[i], f) = None
    \/ \E f \in R.nums : get(rows[i], f).t = "str"

SameFields(R, i, j) ==
    \A f \in R.nums \cup R.pres \cup R.also : get(rows[i], f) = get(rows[j], f)

\* C19: suggest_actions does not raise, whatever fields are absent, None or
\* text; a rule one of whose fields is absent, None or text in place of a
\* number adds no hint; and what a rule adds depends on its own fields only.
C19_NeverRaises ==
    (res.op = "suggest" /\ res.via = "direct") =>
        /\ ~ res.raised
        /\ DOMAIN res.actions = {HostKey(i) : i \in 1..Len(rows)}
        /\ \A R \in RuleTable : \A i \in 1..Len(rows) :
               LastOfHost(i) =>
                   /\ Unusable(R, i) => Hints(i) \cap R.ids = {}
                   /\ \A j \in 1..Len(rows) :
                          (LastOfHost(j) /\ SameFields(R, i, j))
                              => Hints(i) \cap R.ids = Hints(j) \cap R.ids

C19_Witness ==
    /\ Suggested /\ Len(rows) = 2 /\ HostKey(1) # HostKey(2)
    /\ \A R \in RuleTable : Unusable(R, 1)
    /\ get(rows[1], "uptime_days").t = "str" /\ get(rows[1], "iface_total").t = "str"
    /\ ListOf(1) = <<Baseline>>
    /\ get(rows[2], "mem_used_pct").t = "str" /\ get(rows[2], "bgp_peers") = None
    /\ Hints(2) = {"reboot"}

\* license_expired equals 1, or iface_total > 0 and iface_enabled_ratio < 0.6,
\* or mem_used_pct >= 85
RuleFlagged(r) ==
    \/ IsNumber(get(r, "license_expired")) /\ get(r, "license_expired").n = 100
    \/ /\ IsNumber(get(r, "iface_total")) /\ get(r, "iface_total").n > 0
       /\ IsNumber(get(r, "iface_enabled_ratio")) /\ get(r, "iface_enabled_ratio").n < 60
    \/ IsNumber(get(r, "mem_used_pct")) /\ get(r, "mem_used_pct").n >= 8500

\* C20: in index the rule pass is the next step exactly when the ensemble
\* detector returned no anomaly for a non-empty batch; it returns, in record
\* order, exactly the records with license_expired = 1, or iface_total > 0
\* and iface_enabled_ratio < 0.6, or mem_used_pct >= 85, computed from the
\* records alone, and changes neither the records nor the feature matrix.
C20_RulePass ==
    [][/\ op' = "rule_flags" <=> (op = "iforest" /\ rows # <<>> /\ res.idxs = <<>>)
       /\ op' = "rule_flags" =>
              /\ ~ res'.raised
              /\ res'.idxs = SelectSeq([i \in 1..Len(rows) |-> i],
                                       LAMBDA i : RuleFlagged(rows[i]))
              /\ rows' = rows /\ fm' = fm]_vars

C20_Witness ==
    /\ op = "rule_flags" /\ ~ haveLearner /\ Len(rows) = 2
    /\ res.idxs = <<2>>
    /\ get(rows[2], "iface_enabled_ratio") = FloatV(55)
    /\ get(rows[1], "mem_used_pct") = FloatV(8499)

C22_LearnerFailureSurfaces ==
    [][(op' = "iforest" /\ res'.learner \notin {"ok", "unused"})
         => /\ res'.exit = "raised" /\ res'.error = res'.learner
            /\ DOMAIN res' \cap {"idxs", "feats", "scores"} = {}
            /\ rows' = rows]_vars

C22_Witness ==
    /\ op = "iforest" /\ res.op = "iforest" /\ res.exit = "raised"
    /\ res.learner = "score_samples" /\ Len(rows) = 2
    /\ \A i \in 1..Len(rows) : "_iforest_score" \notin DOMAIN rows[i]

\* hc_result is the text FAIL in any letter case
FailText(v) == v.t = "str" /\ v.s \in {"FAIL", "Fail", "fail"}

\* the hints of the rules before the generic one
SpecificIds == UNION {R.ids : R \in RuleTable}

\* C23: the generic health-check hint is in a record's list exactly when
\* hc_result is FAIL in any letter case and no earlier rule added a hint;
\* the generic hint is then the whole list, and a record with hc_result
\* FAIL never gets the baseline message.
C23_GenericHint ==
    Suggested =>
        \A i \in 1..Len(rows) :
            LastOfHost(i) =>
                /\ "hc_fail" \in Hints(i)
                       <=> (FailText(get(rows[i], "hc_result")) /\ Hints(i) \cap SpecificIds = {})
                /\ "hc_fail" \in Hints(i) => ListOf(i) = <<Msg("hc_fail", 0, 0, "")>>
                /\ FailText(get(rows[i], "hc_result")) => "baseline" \notin Hints(i)

C23_Witness ==
    /\ Suggested /\ Len(rows) = 2 /\ HostKey(1) # HostKey(2)
    /\ get(rows[1], "hc_result") = StrV("Fail") /\ Hints(1) = {"memory"}
    /\ get(rows[2], "hc_result") = StrV("FAIL")
    /\ ListOf(2) = <<Msg("hc_fail", 0, 0, "")>>

\* what a finished run returned: the anomalies as positions in rows, the
\* feature names and the scores
RunDone(r) == runs # <<>> /\ runs[r].pc = "done"
ReturnedBy(r) == {runs[r].sel[runs[r].ret.idxs[p]] : p \in 1..Len(runs[r].ret.idxs)}
ScoreBy(r, i) ==
    LET p == CHOOSE q \in 1..Len(runs[r].ret.idxs) : runs[r].sel[runs[r].ret.idxs[q]] = i
    IN  FloatV(runs[r].ret.scores[p])

\* C24: two interleaved detect_outliers_iforest runs on lists that share
\* records each return the anomalies, feature names and scores they return
\* when run alone; when both are done a record carries _iforest_score
\* exactly when a run returned it, and the value is the score of one of
\* the runs that returned it.
C24_RunsReturnAsAlone ==
    /\ \A r \in RunIds :
           RunDone(r) =>
               /\ runs[r].ret.exit = runs[r].alone.exit
               /\ runs[r].ret.idxs = runs[r].alone.idxs
               /\ runs[r].ret.feats = runs[r].alone.feats
               /\ runs[r].ret.scores = runs[r].alone.scores
    /\ (\A r \in RunIds : RunDone(r)) =>
           \A i \in 1..Len(rows) :
               /\ "_iforest_score" \in DOMAIN rows[i] <=> \E r \in RunIds : i \in ReturnedBy(r)
               /\ "_iforest_score" \in DOMAIN rows[i] =>
                      \E r \in RunIds : i \in ReturnedBy(r) /\ rows[i]["_iforest_score"] = ScoreBy(r, i)

C24_Witness ==
    /\ \A r \in RunIds : RunDone(r)
    /\ 2 \in ReturnedBy(1) /\ 2 \in ReturnedBy(2)
    /\ ScoreBy(1, 2) # ScoreBy(2, 2)
    /\ rows[2]["_iforest_score"] = ScoreBy(1, 2)
    /\ "_iforest_score" \in DOMAIN runs[1].snap[2]

\* C25: after any sequence of detect_outliers_iforest calls on one list, a
\* record carries _iforest_score only if the latest call returned it, and
\* the value is the score that call returned for it.
C25_NoStaleScore ==
    (op = "iforest" /\ res.op = "iforest") =>
        \A i \in 1..Len(rows) :
            "_iforest_score" \in DOMAIN rows[i] =>
                \E p \in 1..Len(res.idxs) :
                    res.idxs[p] = i /\ rows[i]["_iforest_score"] = FloatV(res.scores[p])

\* the records as they were before any score was attached
Unscored(rs) ==
    [i \in 1..Len(rs) |-> [k \in DOMAIN rs[i] \ {"_iforest_score"} |-> rs[i][k]]]

\* C26: detect_outliers_iqr returns the same anomalies and the same columns
\* for a list whether or not detect_outliers_iforest ran on it before.
C26_IqrUnaffected ==
    (op = "iqr" /\ res.op = "iqr") =>
        LET before == detect_outliers_iqr(Unscored(rows), 15)
        IN  res.idxs = before.idxs /\ res.feats = before.feats

C28_KeysAndLastWins ==
    Suggested =>
        /\ DOMAIN res.actions =
               {(IF "host" \in DOMAIN rows[i] THEN rows[i]["host"] ELSE StrV("unknown")) :
                    i \in 1..Len(rows)}
        /\ \A i \in 1..Len(rows) :
               LastOfHost(i) => ListOf(i) = suggest_actions(<<rows[i]>>)[HostKey(i)]
        /\ rows = <<>> => res.actions = <<>>

C28_Witness ==
    /\ Suggested /\ Len(rows) = 2
    /\ "host" \notin DOMAIN rows[1] /\ "host" \notin DOMAIN rows[2]
    /\ DOMAIN res.actions = {StrV("unknown")}
    /\ suggestions(rows[1]) = <<Baseline>>
    /\ res.actions[StrV("unknown")] = <<Msg("memory", 0, 0, "")>>

\* the sub-checks of a file with status FAIL, and whether the file's own
\* temperature reading exceeds its own threshold
FailStatuses(b) ==
    Cardinality({k \in DOMAIN b.sections :
                    /\ "status" \in DOMAIN b.sections[k]
                    /\ b.sections[k]["status"] \in {StrV("FAIL"), StrV("Fail"), StrV("fail")}})

OwnBreach(b) ==
    /\ "environment" \in DOMAIN b.sections
    /\ LET ev == b.sections["environment"]
       IN  /\ IsNumber(get(ev, "temperature.current_temp"))
           /\ IsNumber(get(ev, "temperature.threshold"))
           /\ get(ev, "temperature.current_temp").n > get(ev, "temperature.threshold").n

RECURSIVE FailuresUpTo(_)
FailuresUpTo(n) ==
    IF n = 0 THEN 0
    ELSE FailuresUpTo(n - 1) + FailStatuses(hblocks[n])
         + (IF OwnBreach(hblocks[n]) THEN 1 ELSE 0)

\* C29: after merging health-check files of a host, hc_fail_count is the
\* number of sub-checks with status FAIL of the merged files plus one for
\* every merged file whose own temperature exceeds its threshold, and
\* hc_result is FAIL exactly when a merged file reported result FAIL.
C29_FailCount ==
    hdone >= 1 =>
        /\ hout["hc_fail_count"] = FloatV(100 * FailuresUpTo(hdone))
        /\ get(hout, "hc_result") = StrV("FAIL")
               <=> \E n \in 1..hdone : hblocks[n].result \in {StrV("FAIL"), StrV("fail")}

\* C30: at most one UI process launched by start_ui is alive at any time;
\* start_ui launches only when ui.pid is missing, unreadable or names a dead
\* process; and when stop_ui returns "stopped" ui.pid is gone and the
\* process it named is not running.
C30_SingleUi ==
    [][/\ Cardinality(alive') <= 1
       /\ \A c \in CallerIds :
              /\ (calls[c].pc = "s_popen" /\ calls'[c].pc = "s_open")
                     => (~ pidFile.exists \/ pidFile.pid = 0 \/ pidFile.pid \notin alive)
              /\ (calls[c].pc = "t_remove" /\ calls'[c].pc = "idle")
                     => (~ pidFile'.exists /\ calls[c].pid \notin alive')]_vars
====
